---- MODULE Spec2Model ----
(***************************************************************************)
(* test-quest: the execution-and-verification pipeline.                    *)
(*                                                                         *)
(* Three tasks are spawned by run_pipeline_tasks (bin/test_quest/main.rs): *)
(*   - the Coordinator, run_tests (bin/test_quest/runner.rs),              *)
(*   - the Evaluator, Asserter::run (bin/test_quest/asserter.rs),          *)
(*   - the Reporter, OutPutter::start (bins/befaring/outputter.rs),        *)
(* connected by two unbounded flume channels.  Every .await of run_tests   *)
(* is a pair of steps (the operation begins, the operation completes), so  *)
(* that "in progress" is a state of the model.                             *)
(*                                                                         *)
(* An Option<T> is a sequence of length 0 (None) or 1 (Some).  A HeaderMap *)
(* is a set of <<name, value>> pairs.  A test case is named by its place   *)
(* in the plan, <<group index, test index>>.                               *)
(***************************************************************************)
EXTENDS Integers, Sequences, FiniteSets, TLC

\* ------------------------------------------------------------- bounds
\* Most groups in a plan.
MaxGroups == 2
\* Most test cases in a plan, over all its groups.
MaxCases == 2
\* The SQL statements of a hook that has some.
MaxSql == 1
\* The entries of a header map.
MaxHeaders == 2
\* The rows a query returns to an assertion function called on its own.
MaxRows == 2
\* The columns of a row given to the normalizer.
MaxCols == 2
MaxTables == 2

\* `for _ in 0..30` of wait_for_db and `timeout_secs = 15` of wait_for_app_ready.
MaxTries == 30
timeout_secs == 15

\* ---------------------------------------------------------- data model
None == <<>>
Some(x) == <<x>>
IsSome(o) == Len(o) = 1
Unwrap(o) == o[1]

\* Assertion (validator.rs): Status, Headers, Sql {query, expect, got}, Json,
\* and RequestFailed, which only the Evaluator builds.
Status(c) == [kind |-> "Status", code |-> c]
Headers(m) == [kind |-> "Headers", map |-> m]
Sql(q, e) == [kind |-> "Sql", query |-> q, expect |-> e, got |-> None]
\* StringOrStrings (parser.rs): the expectation of a Sql assertion.
Single(s) == [shape |-> "Single", val |-> s]
Multiple(items) == [shape |-> "Multiple", val |-> items]
\* A serde_json::Value, named by its compact text.
JsonNull == "null"
JsonArrayOfOne == "[1]"
Json(v) == [kind |-> "Json", value |-> v]
RequestFailed == [kind |-> "RequestFailed"]

\* The i-th SQL statement of a hook: the insertion of row i.
Statement(i) == "INSERT INTO t VALUES (" \o ToString(i) \o ")"
HookStatement == Statement(1)

\* BeforeEach {reset_db, sql} of a group, as Option<BeforeEach>: no hook, a
\* reset, statements, or both; a hook that has statements has m of them.
GroupHooks(m) ==
    {None} \cup
    { h \in { Some([reset_db |-> r, sql |-> [i \in 1..n |-> Statement(i)]]) :
               r \in BOOLEAN, n \in {0, m} } :
        Unwrap(h).reset_db \/ Unwrap(h).sql # <<>> }

\* before_run of a test case, as Option<Vec<String>>.
BeforeRuns(m) == {None, Some([i \in 1..m |-> Statement(i)])}

\* The assertion lists of the plans explored: parse_assertions pushes the
\* declared ones in the order status, headers, sql, json.
CountQuery == "SELECT COUNT(*) FROM t"
AssertionLists ==
    { <<>>,
      << Status(200), Headers(<< <<"x-trace", "abc">> >>), Sql(CountQuery, Single("1")), Json(JsonArrayOfOne) >> }

\* A parsed Url by its components; the text it was parsed from.
Url(scheme, host, path, query) == [scheme |-> scheme, host |-> host, path |-> path, query |-> query]
UrlText(u) == u.scheme \o "://" \o u.host \o u.path \o u.query

\* ValidatedTests: the fields run_tests reads.
TestCases(m) ==
    [before_run : BeforeRuns(m), method : {"GET"}, url : {Url("http", "localhost:8080", "/users/1", "?a=1")},
     assertions : AssertionLists]

\* The plans explored: the number of test cases of each group, in plan order;
\* every group has a test case.
RECURSIVE SumSeq(_)
SumSeq(s) == IF s = <<>> THEN 0 ELSE s[1] + SumSeq(Tail(s))

Plans ==
    { p \in UNION { [1..n -> 1..MaxCases] : n \in 0..MaxGroups } : SumSeq(p) <= MaxCases }

\* The test cases of plan p, named by <<group, test>>.
CaseIds(p) == UNION { { <<g, t>> : t \in 1..p[g] } : g \in 1..Len(p) }

\* a before b in plan order: group order, then case order within the group.
Before(a, b) == a[1] < b[1] \/ (a[1] = b[1] /\ a[2] < b[2])

\* ------------------------------------------------ what the environment answers
\* The first column of a returned row, by what sqlx can decode it as.
TextCell(s) == [type |-> "text", val |-> s]
IntCell(i) == [type |-> "int", val |-> i]
FloatCell(s) == [type |-> "float", val |-> s]
BoolCell(b) == [type |-> "bool", val |-> b]
NullCell == [type |-> "null"]
OtherCell == [type |-> "other"]

\* fetch_all of an assertion's query: Err(e), or Ok(rows).
QueryErr(e) == [ok |-> FALSE, error |-> e]
QueryOk(rows) == [ok |-> TRUE, rows |-> rows]
QueryResults == { QueryErr("relation t does not exist"), QueryOk(<< TextCell("1") >>) }

\* send().await of the request: Err(e), or Ok(resp) once the status line and
\* the headers have arrived; the body has not been read yet.
Response(st, hs) == [status |-> st, headers |-> hs]
HttpErr(e) == [ok |-> FALSE, error |-> e]
HttpOk(resp) == [ok |-> TRUE, response |-> resp]
HttpResults ==
    { HttpErr("connection refused"),
      HttpOk(Response(200, << <<"x-trace", "abc">> >>)) }

\* resp.text().await: Ok(t), or Err(err).
BodyErr(e) == [ok |-> FALSE, error |-> e]
BodyOk(t) == [ok |-> TRUE, text |-> t]
BodyResults == { BodyOk("[ 1 ]"), BodyErr("connection reset") }

\* serde_json::from_str(&body_text).ok(): the value of a JSON text, None for
\* any other text.
FromStr(text) ==
    IF text = "[ 1 ]" THEN Some(JsonArrayOfOne)
    ELSE IF text = "null" THEN Some(JsonNull)
    ELSE None

\* CapturedResponse::from_response: status, headers, body_text, body_json.
BodyText(b) == IF b.ok THEN b.text ELSE "Failed to read body: " \o b.error
CapturedResponse(resp, b) ==
    [status |-> resp.status, headers |-> resp.headers,
     body_text |-> BodyText(b), body_json |-> FromStr(BodyText(b))]

\* ------------------------------------------------------------ variables
VARIABLES
    plan,          \* ir.tests: the number of test cases of each group
    before_run_reset, \* Hook.reset of the before_run hooks the test file declares
    n_sql,         \* the number of statements of the hooks that have some
    before_each_group, \* ir.before_each_group, as an Option
    before_each_test,  \* test_group.before_each_test, the same for every group
    pc,            \* where run_tests is
    gi,            \* index of the group of the outer loop (0 before the first)
    ti,            \* index of the test case of the inner loop (0 before the first)
    before_group,  \* test_group.before_group of the current group
    test,          \* the test case of the inner loop, its assertions mutated in place
    si,            \* index of the statement run_sql is at
    ai,            \* index of the assertion run_sql_assertions is at
    result,        \* the Result of send().await, as an Option
    inflight,      \* the awaited operations that have begun and not completed
    runner_ch,     \* the channel runner_tx -> asserter_rx
    apc,           \* where Asserter::run is
    output_ch,     \* the channel asserter_tx -> outputter_rx
    rpc,           \* where OutPutter::start is
    passed_count, failed_count, failed_tests, all_passed_printed,
    main_result,   \* what main has returned, as an Option: None while it runs
    call,          \* a call of one assertion function on its own: fn, args, ret
    \* history, read by the properties only
    httpCount,     \* per test case, the HTTP requests begun
    sentLog,       \* the names of the outcomes sent on runner_ch, in order
    taken,         \* the names of the messages Asserter::run received, in order
    emitted,       \* the names of the tuples Asserter::run sent, in order
    received,      \* the names of the bundles OutPutter::start received, in order
    receivedResults, \* the number of AssertResults in the bundles received
    hookResets,    \* reset_database calls begun since the current group was entered
    hookInserts,   \* statements completed by the current group's hook
    hookError,     \* a reset or a hook statement has returned Err
    executed,      \* the statements the run_sql call in progress has executed, in order
    httpErr        \* per test case, the error send().await returned, as an Option

coordinator == <<plan, before_run_reset, n_sql, before_each_group, before_each_test, pc, gi, ti, before_group, test, si, ai, result, inflight>>
evaluator == <<apc>>
reporter == <<rpc, passed_count, failed_count, failed_tests, all_passed_printed>>
history == <<httpCount, sentLog, taken, emitted, received, receivedResults, hookResets, hookInserts,
            hookError, executed, httpErr>>
vars == <<coordinator, runner_ch, evaluator, output_ch, reporter, main_result, call, history>>

\* The test case the inner loop is at.
CurrentCase == <<gi, ti>>

\* An awaited operation of run_tests, tagged with the test case it belongs to
\* (<<gi, 0>> for the group's hook).
Op(kind, id) == [kind |-> kind, case |-> id]

\* A task has returned or panicked.
RunnerFinished == pc \in {"Done", "Failed", "Crashed"}
AsserterFinished == apc \in {"Done", "Crashed"}
OutPutterFinished == rpc = "Done"

\* RunnerTxDropped with a clone of runner_tx kept by the spawning function.
RunnerTxDropped_CloneKept == FALSE

\* AsserterTxDropped with a clone of asserter_tx kept by the spawning function.
AsserterTxDropped_CloneKept == FALSE

\* run_pipeline_tasks moves each end of a channel into the one task that uses
\* it and keeps no clone: an end is dropped when its task has finished.
RunnerTxDropped == RunnerFinished
AsserterRxDropped == AsserterFinished
AsserterTxDropped == AsserterFinished
OutPutterRxDropped == OutPutterFinished

\* No function is called on its own while the pipeline runs.
NoCall == [fn |-> "none", args |-> <<>>, ret |-> None]
Call(fn, args) == [fn |-> fn, args |-> args, ret |-> None]
Returned(fn) == call.fn = fn /\ IsSome(call.ret)

\* The three tasks and their channels as run_pipeline_tasks creates them, for
\* one of the plans.
PipelineInit(plans) ==
    /\ main_result = None
    /\ executed = <<>>
    /\ plan \in plans
    /\ pc = "GroupHead"
    /\ gi = 0 /\ ti = 0
    /\ before_group = None
    /\ test = None
    /\ si = 0 /\ ai = 0
    /\ result = None
    /\ inflight = {}
    /\ runner_ch = <<>>
    /\ apc = "Recv"
    /\ output_ch = <<>>
    /\ rpc = "Recv"
    /\ passed_count = 0 /\ failed_count = 0 /\ failed_tests = <<>>
    /\ all_passed_printed = FALSE
    /\ httpCount = [id \in CaseIds(plan) |-> 0]
    /\ sentLog = <<>> /\ taken = <<>> /\ emitted = <<>> /\ received = <<>>
    /\ receivedResults = 0
    /\ hookResets = 0 /\ hookInserts = 0
    /\ hookError = FALSE
    /\ httpErr = [id \in CaseIds(plan) |-> None]

\* The state run_pipeline_tasks starts from, for the test files whose hooks
\* have n statements and whose before_run hooks declare reset = `reset`
\* (parser.rs, Hook): create_test keeps the statements of a before_run hook,
\* ValidatedTests has no place for its reset.
InitWith(reset, n, each) ==
    /\ before_run_reset = reset
    /\ n_sql = n
    /\ before_each_group = each
    /\ before_each_test = each
    /\ call = NoCall
    /\ PipelineInit(Plans)

Init == InitWith(FALSE, MaxSql, None)

\* ------------------------------------------------------ run_sql_assertions
\* The string one row contributes: the first try_get that succeeds.  A NULL and
\* a value no try_get decodes both end in try_get::<Option<String>>, whose
\* .ok().flatten() is None for both.
TryGetOptionString(cell) ==
    IF cell.type = "text" THEN Some(Some(cell.val))
    ELSE IF cell.type = "null" THEN Some(None)
    ELSE None

\* RowString telling a NULL from a value no try_get decodes.
RowString_Unsupported(cell) ==
    IF cell.type = "text" THEN cell.val
    ELSE IF cell.type = "int" THEN ToString(cell.val)
    ELSE IF cell.type = "float" THEN cell.val
    ELSE IF cell.type = "bool" THEN (IF cell.val THEN "true" ELSE "false")
    ELSE IF cell.type = "null" THEN "null"
    ELSE "<unsupported type>"

RowString(cell) ==
    IF cell.type = "text" THEN cell.val
    ELSE IF cell.type = "int" THEN ToString(cell.val)
    ELSE IF cell.type = "float" THEN cell.val
    ELSE IF cell.type = "bool" THEN (IF cell.val THEN "true" ELSE "false")
    ELSE IF (LET o == TryGetOptionString(cell) IN ~IsSome(o) \/ ~IsSome(Unwrap(o)))
         THEN "null"
    ELSE "<unsupported type>"

\* values.join(", ")
RECURSIVE Join(_)
Join(values) ==
    IF values = <<>> THEN ""
    ELSE IF Len(values) = 1 THEN values[1]
    ELSE values[1] \o ", " \o Join(Tail(values))

\* got_str of one query result.
GotStr(q) ==
    IF q.ok THEN Join([i \in 1..Len(q.rows) |-> RowString(q.rows[i])])
    ELSE "SQL error: " \o q.error

\* The index of the first Sql assertion at or after `from`, Len + 1 when none:
\* the loop of run_sql_assertions awaits only at those.
RECURSIVE NextSql(_, _)
NextSql(assertions, from) ==
    IF from > Len(assertions) THEN Len(assertions) + 1
    ELSE IF assertions[from].kind = "Sql" THEN from
    ELSE NextSql(assertions, from + 1)

\* ------------------------------------------------------------- run_tests
\* Where run_tests goes once a group's hook is known.
AfterSql(stmts, at, else) == IF Len(stmts) = 0 THEN else ELSE at

\* HookEntry with run_sql called without waiting for the reset.
HookEntry_SqlFirst(h) ==
    IF h = None THEN "TestHead" ELSE AfterSql(Unwrap(h).sql, "GroupSql", "TestHead")

HookEntry(h) ==
    IF h = None THEN "TestHead"
    ELSE IF Unwrap(h).reset_db THEN "Reset"
    ELSE AfterSql(Unwrap(h).sql, "GroupSql", "TestHead")

\* Where run_tests goes once the test case of the inner loop is known.
TestEntry(t) ==
    IF IsSome(t.before_run) THEN AfterSql(Unwrap(t.before_run), "CaseSql", "Http") ELSE "Http"

\* for test_group in ir.tests: the next group and its hook, or the end of the plan.
GroupHead ==
    /\ pc = "GroupHead"
    /\ IF gi = Len(plan)
       THEN /\ pc' = "Done"
            /\ UNCHANGED <<gi, ti, before_group, si, hookResets, hookInserts>>
       ELSE \E h \in GroupHooks(n_sql) :
            /\ gi' = gi + 1
            /\ ti' = 0
            /\ before_group' = h
            /\ si' = 1
            /\ hookResets' = 0
            /\ hookInserts' = 0
            /\ pc' = HookEntry(h)
    /\ UNCHANGED <<plan, before_run_reset, n_sql, before_each_group, before_each_test, test,
                   ai, result, inflight, runner_ch, apc, output_ch, rpc, passed_count,
                   failed_count, failed_tests, all_passed_printed, main_result, call,
                   httpCount, sentLog, taken, emitted, received, receivedResults, hookError,
                   executed, httpErr>>

\* reset_database(&pool) is called.
BeginReset ==
    /\ pc = "Reset"
    /\ inflight' = inflight \cup {Op("reset", <<gi, 0>>)}
    /\ hookResets' = hookResets + 1
    /\ pc' = "ResetAwait"
    /\ UNCHANGED <<plan, before_run_reset, n_sql, before_each_group, before_each_test, gi, ti,
                   before_group, test, si, ai, result, runner_ch, apc, output_ch, rpc,
                   passed_count, failed_count, failed_tests, all_passed_printed, main_result,
                   call, httpCount, sentLog, taken, emitted, received, receivedResults,
                   hookInserts, hookError, executed, httpErr>>

\* Propagate with the `?` forgotten: the error is dropped and the run goes on.
Propagate_Ignored(ok, next) == next

\* The `?` after a reset or a statement of a hook: Err(DatabaseError) is
\* returned from run_tests, Ok goes on to `next`.
Propagate(ok, next) == IF ok THEN next ELSE "Failed"

\* reset_database(&pool).await returns.
CompleteReset ==
    /\ pc = "ResetAwait"
    /\ inflight' = inflight \ {Op("reset", <<gi, 0>>)}
    /\ \E ok \in BOOLEAN :
         /\ hookError' = (hookError \/ ~ok)
         /\ pc' = Propagate(ok, AfterSql(Unwrap(before_group).sql, "GroupSql", "TestHead"))
    /\ UNCHANGED <<plan, before_run_reset, n_sql, before_each_group, before_each_test, gi, ti,
                   before_group, test, si, ai, result, runner_ch, apc, output_ch, rpc,
                   passed_count, failed_count, failed_tests, all_passed_printed, main_result,
                   call, httpCount, sentLog, taken, emitted, received, receivedResults,
                   hookResets, hookInserts, executed, httpErr>>

\* run_sql on the group hook's statements: statement si is executed.
BeginGroupSql ==
    /\ pc = "GroupSql"
    /\ inflight' = inflight \cup {Op("hook_sql", <<gi, 0>>)}
    /\ executed' = Append(executed, Unwrap(before_group).sql[si])
    /\ pc' = "GroupSqlAwait"
    /\ UNCHANGED <<plan, before_run_reset, n_sql, before_each_group, before_each_test, gi, ti,
                   before_group, test, si, ai, result, runner_ch, apc, output_ch, rpc,
                   passed_count, failed_count, failed_tests, all_passed_printed, main_result,
                   call, httpCount, sentLog, taken, emitted, received, receivedResults,
                   hookResets, hookInserts, hookError, httpErr>>

\* The statement returns: Ok goes on to the next one, or out of run_sql.
CompleteGroupSql ==
    /\ pc = "GroupSqlAwait"
    /\ inflight' = inflight \ {Op("hook_sql", <<gi, 0>>)}
    /\ \E ok \in BOOLEAN :
         LET last == si = Len(Unwrap(before_group).sql) IN
         /\ hookError' = (hookError \/ ~ok)
         /\ hookInserts' = IF ok THEN hookInserts + 1 ELSE hookInserts
         /\ pc' = Propagate(ok, IF last THEN "TestHead" ELSE "GroupSql")
         /\ si' = IF ~ok THEN si ELSE IF last THEN 1 ELSE si + 1
         /\ executed' = IF ok /\ last THEN <<>> ELSE executed
    /\ UNCHANGED <<plan, before_run_reset, n_sql, before_each_group, before_each_test, gi, ti,
                   before_group, test, ai, result, runner_ch, apc, output_ch, rpc,
                   passed_count, failed_count, failed_tests, all_passed_printed, main_result,
                   call, httpCount, sentLog, taken, emitted, received, receivedResults,
                   hookResets, httpErr>>

\* for mut test in test_group.tests: the next test case, or the end of the group.
TestHead ==
    /\ pc = "TestHead"
    /\ IF ti = plan[gi]
       THEN /\ pc' = "GroupHead"
            /\ test' = None
            /\ UNCHANGED <<ti, si>>
       ELSE \E t \in TestCases(n_sql) :
            /\ ti' = ti + 1
            /\ test' = Some(t)
            /\ si' = 1
            /\ pc' = TestEntry(t)
    /\ UNCHANGED <<plan, before_run_reset, n_sql, before_each_group, before_each_test, gi,
                   before_group, ai, result, inflight, runner_ch, apc, output_ch, rpc,
                   passed_count, failed_count, failed_tests, all_passed_printed, main_result,
                   call, httpCount, sentLog, taken, emitted, received, receivedResults,
                   hookResets, hookInserts, hookError, executed, httpErr>>

\* run_sql on test.before_run: statement si is executed.
BeginCaseSql ==
    /\ pc = "CaseSql"
    /\ inflight' = inflight \cup {Op("case_sql", CurrentCase)}
    /\ executed' = Append(executed, Unwrap(Unwrap(test).before_run)[si])
    /\ pc' = "CaseSqlAwait"
    /\ UNCHANGED <<plan, before_run_reset, n_sql, before_each_group, before_each_test, gi, ti,
                   before_group, test, si, ai, result, runner_ch, apc, output_ch, rpc,
                   passed_count, failed_count, failed_tests, all_passed_printed, main_result,
                   call, httpCount, sentLog, taken, emitted, received, receivedResults,
                   hookResets, hookInserts, hookError, httpErr>>

CompleteCaseSql ==
    /\ pc = "CaseSqlAwait"
    /\ inflight' = inflight \ {Op("case_sql", CurrentCase)}
    /\ \E ok \in BOOLEAN :
         LET last == si = Len(Unwrap(Unwrap(test).before_run)) IN
         /\ hookError' = (hookError \/ ~ok)
         /\ pc' = Propagate(ok, IF last THEN "Http" ELSE "CaseSql")
         /\ si' = IF ~ok THEN si ELSE IF last THEN 1 ELSE si + 1
         /\ executed' = IF ok /\ last THEN <<>> ELSE executed
    /\ UNCHANGED <<plan, before_run_reset, n_sql, before_each_group, before_each_test, gi, ti,
                   before_group, test, ai, result, runner_ch, apc, output_ch, rpc,
                   passed_count, failed_count, failed_tests, all_passed_printed, main_result,
                   call, httpCount, sentLog, taken, emitted, received, receivedResults,
                   hookResets, hookInserts, httpErr>>

\* BeginHttp as a spawned task that is not awaited: the loop goes on to the
\* next test case while the request is in progress.
BeginHttp_Spawned ==
    /\ pc = "Http"
    /\ inflight' = inflight \cup {Op("http", CurrentCase)}
    /\ httpCount' = [httpCount EXCEPT ![CurrentCase] = @ + 1]
    /\ pc' = "TestHead"
    /\ UNCHANGED <<plan, before_run_reset, n_sql, before_each_group, before_each_test, gi, ti,
                   before_group, test, si, ai, result, runner_ch, apc, output_ch, rpc,
                   passed_count, failed_count, failed_tests, all_passed_printed, main_result,
                   call, sentLog, taken, emitted, received, receivedResults, hookResets,
                   hookInserts, hookError, executed, httpErr>>

\* client.request(..).send() is called.
BeginHttp ==
    /\ pc = "Http"
    /\ inflight' = inflight \cup {Op("http", CurrentCase)}
    /\ httpCount' = [httpCount EXCEPT ![CurrentCase] = @ + 1]
    /\ pc' = "HttpAwait"
    /\ UNCHANGED <<plan, before_run_reset, n_sql, before_each_group, before_each_test, gi, ti,
                   before_group, test, si, ai, result, runner_ch, apc, output_ch, rpc,
                   passed_count, failed_count, failed_tests, all_passed_printed, main_result,
                   call, sentLog, taken, emitted, received, receivedResults, hookResets,
                   hookInserts, hookError, executed, httpErr>>

\* AfterHttp with the transport error returned by `?`.
AfterHttp_Abort(r) == IF r.ok THEN "SqlAssert" ELSE "Failed"
\* AfterHttp with a failed request sent again.
AfterHttp_Retry(r) == IF r.ok THEN "SqlAssert" ELSE "Http"
\* AfterHttp with run_sql_assertions reached only on a response.
AfterHttp_SkipOnErr(r) == IF r.ok THEN "SqlAssert" ELSE "Send"

\* Where run_tests goes with the request's Result: on to run_sql_assertions.
AfterHttp(r) == "SqlAssert"

\* Where run_tests goes after run_sql_assertions: a response has its body
\* read by from_response, an error goes straight to the send.
AfterAssertions(r) == IF r.ok THEN "Body" ELSE "Send"

\* send().await returns Ok or Err: both are kept in `result`.
CompleteHttp ==
    /\ pc = "HttpAwait"
    /\ inflight' = inflight \ {Op("http", CurrentCase)}
    /\ \E r \in HttpResults :
         /\ result' = Some(r)
         /\ httpErr' = [httpErr EXCEPT ![CurrentCase] = IF r.ok THEN None ELSE Some(r.error)]
         /\ ai' = NextSql(Unwrap(test).assertions, 1)
         /\ pc' = IF AfterHttp(r) = "SqlAssert" /\ ai' > Len(Unwrap(test).assertions)
                  THEN AfterAssertions(r) ELSE AfterHttp(r)
    /\ UNCHANGED <<plan, before_run_reset, n_sql, before_each_group, before_each_test, gi, ti,
                   before_group, test, si, runner_ch, apc, output_ch, rpc, passed_count,
                   failed_count, failed_tests, all_passed_printed, main_result, call,
                   httpCount, sentLog, taken, emitted, received, receivedResults, hookResets,
                   hookInserts, hookError, executed>>

\* run_sql_assertions: the query of assertion ai is executed.
BeginQuery ==
    /\ pc = "SqlAssert"
    /\ inflight' = inflight \cup {Op("sql_assert", CurrentCase)}
    /\ pc' = "SqlAssertAwait"
    /\ UNCHANGED <<plan, before_run_reset, n_sql, before_each_group, before_each_test, gi, ti,
                   before_group, test, si, ai, result, runner_ch, apc, output_ch, rpc,
                   passed_count, failed_count, failed_tests, all_passed_printed, main_result,
                   call, httpCount, sentLog, taken, emitted, received, receivedResults,
                   hookResets, hookInserts, hookError, executed, httpErr>>

\* AfterQuery with fetch_all followed by `?`.
AfterQuery_Propagate(q, next) == IF q.ok THEN next ELSE "Failed"

\* Where run_sql_assertions goes with the Result of fetch_all: both arms of
\* the match give a got_str, and the loop goes on.
AfterQuery(q, next) == next

\* fetch_all returns: *got = Some(got_str), for rows and for an error alike.
CompleteQuery ==
    /\ pc = "SqlAssertAwait"
    /\ inflight' = inflight \ {Op("sql_assert", CurrentCase)}
    /\ ai' = NextSql(Unwrap(test).assertions, ai + 1)
    /\ \E q \in QueryResults :
         /\ test' = Some([Unwrap(test) EXCEPT !.assertions[ai].got = Some(GotStr(q))])
         /\ pc' = AfterQuery(q, IF ai' > Len(Unwrap(test).assertions)
                                THEN AfterAssertions(Unwrap(result)) ELSE "SqlAssert")
    /\ UNCHANGED <<plan, before_run_reset, n_sql, before_each_group, before_each_test, gi, ti,
                   before_group, si, result, runner_ch, apc, output_ch, rpc, passed_count,
                   failed_count, failed_tests, all_passed_printed, main_result, call,
                   httpCount, sentLog, taken, emitted, received, receivedResults, hookResets,
                   hookInserts, hookError, executed, httpErr>>

\* CapturedResponse::from_response(resp): resp.text() is called.
BeginBody ==
    /\ pc = "Body"
    /\ inflight' = inflight \cup {Op("body", CurrentCase)}
    /\ pc' = "BodyAwait"
    /\ UNCHANGED <<plan, before_run_reset, n_sql, before_each_group, before_each_test, gi, ti,
                   before_group, test, si, ai, result, runner_ch, apc, output_ch, rpc,
                   passed_count, failed_count, failed_tests, all_passed_printed, main_result,
                   call, httpCount, sentLog, taken, emitted, received, receivedResults,
                   hookResets, hookInserts, hookError, executed, httpErr>>

\* resp.text().await returns: the text, or the message of the error, is kept
\* as body_text of a response.
CompleteBody ==
    /\ pc = "BodyAwait"
    /\ inflight' = inflight \ {Op("body", CurrentCase)}
    /\ \E b \in BodyResults :
         result' = Some(HttpOk(CapturedResponse(Unwrap(result).response, b)))
    /\ pc' = "Send"
    /\ UNCHANGED <<plan, before_run_reset, n_sql, before_each_group, before_each_test, gi, ti,
                   before_group, test, si, ai, runner_ch, apc, output_ch, rpc, passed_count,
                   failed_count, failed_tests, all_passed_printed, main_result, call,
                   httpCount, sentLog, taken, emitted, received, receivedResults, hookResets,
                   hookInserts, hookError, executed, httpErr>>

\* The RunnerResult built from the test case and the request's Result.
\* RunnerResult with the Err arm leaving error unset.
RunnerResult_NoError(name, t, r) ==
    [name |-> name, method |-> t.method, url |-> t.url,
     response |-> IF r.ok THEN Some(r.response) ELSE None,
     error |-> None,
     assertions |-> t.assertions]

RunnerResult(name, t, r) ==
    [name |-> name, method |-> t.method, url |-> t.url,
     response |-> IF r.ok THEN Some(r.response) ELSE None,
     error |-> IF r.ok THEN None ELSE Some(r.error),
     assertions |-> t.assertions]

\* AfterSend with the group's hook inside the loop over the test cases.
AfterSend_Rehook == HookEntry(before_group)

\* Where run_tests goes after a successful send: the next test case.
AfterSend == "TestHead"

\* tx.send_async(runner_result).await: an unbounded channel takes the message
\* at once, unless the receiver is dropped (todo!() panics).  The test case
\* and the request's Result have been moved into the message.
SendResult ==
    /\ pc = "Send"
    /\ IF AsserterRxDropped
       THEN pc' = "Crashed" /\ UNCHANGED <<runner_ch, sentLog>>
       ELSE /\ runner_ch' = Append(runner_ch,
                                   RunnerResult(CurrentCase, Unwrap(test), Unwrap(result)))
            /\ sentLog' = Append(sentLog, CurrentCase)
            /\ pc' = AfterSend
    /\ result' = None
    /\ test' = None
    /\ ai' = 0
    /\ UNCHANGED <<plan, before_run_reset, n_sql, before_each_group, before_each_test, gi, ti,
                   before_group, si, inflight, apc, output_ch, rpc, passed_count, failed_count,
                   failed_tests, all_passed_printed, main_result, call, httpCount, taken,
                   emitted, received, receivedResults, hookResets, hookInserts, hookError,
                   executed, httpErr>>

Coordinator ==
    \/ GroupHead \/ BeginReset \/ CompleteReset \/ BeginGroupSql \/ CompleteGroupSql
    \/ TestHead \/ BeginCaseSql \/ CompleteCaseSql \/ BeginHttp \/ CompleteHttp
    \/ BeginQuery \/ CompleteQuery \/ BeginBody \/ CompleteBody \/ SendResult

\* ------------------------------------------------------------- asserter.rs
Pass == "Pass"
Fail == "Fail"

\* `*s as u16` of an i32: the low 16 bits.
AsU16(s) == s % 65536

\* StatusCode::from_u16 accepts 100..=999.
IsStatusCode(n) == 100 <= n /\ n < 1000

assert_status(s, status) ==
    IF ~IsStatusCode(AsU16(s)) THEN Fail
    ELSE IF AsU16(s) # status THEN Fail
    ELSE Pass

\* A HeaderMap is the sequence of its entries <<name, value>>; a name may
\* have several values.  contains_key and get: get yields the first value.
ContainsKey(map, key) == \E i \in 1..Len(map) : map[i][1] = key
Get(map, key) ==
    map[CHOOSE i \in 1..Len(map) :
            map[i][1] = key /\ \A j \in 1..(i - 1) : map[j][1] # key][2]

\* assert_header of the older snapshot: the maps must have the same length and
\* every expected header must be there.
assert_header_Exact(expected, actual) ==
    IF Len(expected) # Len(actual) THEN Fail
    ELSE IF \E i \in 1..Len(expected) :
               \/ ~ContainsKey(actual, expected[i][1])
               \/ Get(actual, expected[i][1]) # expected[i][2]
         THEN Fail ELSE Pass

\* For every expected header the response also has, the values must be equal;
\* an expected header the response does not have is skipped.
assert_header(expected, actual) ==
    IF \E i \in 1..Len(expected) :
          /\ ContainsKey(actual, expected[i][1])
          /\ Get(actual, expected[i][1]) # expected[i][2]
    THEN Fail ELSE Pass

assert_json(expected, got) ==
    IF IsSome(got) THEN (IF Unwrap(got) = expected THEN Pass ELSE Fail) ELSE Pass

\* assert_sql without the case of an empty expectation against no rows.
assert_sql_NoEmptyCase(expect, got) ==
    IF ~IsSome(got) THEN Fail
    ELSE LET rows == Unwrap(got) IN
         IF expect.shape = "Single"
         THEN IF Len(rows) # 1 THEN Fail
              ELSE IF rows[1] # expect.val THEN Fail
              ELSE Pass
         ELSE IF Len(rows) # Len(expect.val) THEN Fail
              ELSE IF \E i \in 1..Len(rows) : rows[i] # expect.val[i] THEN Fail
              ELSE Pass

\* assert_sql comparing the number of rows only.
assert_sql_LenOnly(expect, got) ==
    IF ~IsSome(got) THEN Fail
    ELSE LET rows == Unwrap(got) IN
         IF expect.shape = "Single"
         THEN IF expect.val = "" /\ rows = <<>> THEN Pass
              ELSE IF Len(rows) # 1 THEN Fail
              ELSE IF rows[1] # expect.val THEN Fail
              ELSE Pass
         ELSE IF Len(rows) # Len(expect.val) THEN Fail ELSE Pass

\* assert_sql comparing the rows to the expectation in any order.
assert_sql_Unordered(expect, got) ==
    IF ~IsSome(got) THEN Fail
    ELSE LET rows == Unwrap(got) IN
         IF expect.shape = "Single"
         THEN IF expect.val = "" /\ rows = <<>> THEN Pass
              ELSE IF Len(rows) # 1 THEN Fail
              ELSE IF rows[1] # expect.val THEN Fail
              ELSE Pass
         ELSE IF Len(rows) # Len(expect.val) THEN Fail
              ELSE IF \E v \in { rows[i] : i \in 1..Len(rows) } :
                         Cardinality({ i \in 1..Len(rows) : rows[i] = v })
                             # Cardinality({ i \in 1..Len(rows) : expect.val[i] = v })
                   THEN Fail
              ELSE Pass

\* got is the Option<Vec<String>> of the rows.
assert_sql(expect, got) ==
    IF ~IsSome(got) THEN Fail
    ELSE LET rows == Unwrap(got) IN
         IF expect.shape = "Single"
         THEN IF expect.val = "" /\ rows = <<>> THEN Pass
              ELSE IF Len(rows) # 1 THEN Fail
              ELSE IF rows[1] # expect.val THEN Fail
              ELSE Pass
         ELSE IF Len(rows) # Len(expect.val) THEN Fail
              ELSE IF \E i \in 1..Len(rows) : rows[i] # expect.val[i] THEN Fail
              ELSE Pass

\* The rows the Evaluator reads from the got the Coordinator recorded: the
\* recorded string is the one row it compares.
GotRows(got) == IF IsSome(got) THEN Some(<< Unwrap(got) >>) ELSE None

AssertResult(st, expected, actual) == [status |-> st, expected |-> expected, actual |-> actual]

\* The AssertResult of one declared assertion against a response.
AssertOne(a, response) ==
    IF a.kind = "Status"
    THEN AssertResult(assert_status(a.code, response.status), a,
                      [kind |-> "Status", status |-> response.status])
    ELSE IF a.kind = "Headers"
    THEN AssertResult(assert_header(a.map, response.headers), a,
                      [kind |-> "Header", headers |-> response.headers])
    ELSE IF a.kind = "Sql"
    THEN AssertResult(assert_sql(a.expect, GotRows(a.got)), a,
                      [kind |-> "Sql",
                       rows |-> IF IsSome(a.got) THEN Unwrap(GotRows(a.got)) ELSE <<>>])
    ELSE AssertResult(assert_json(a.value, response.body_json), a,
                      [kind |-> "Json",
                       value |-> IF IsSome(response.body_json) THEN Unwrap(response.body_json)
                                 ELSE JsonNull])

\* The single result of a request that failed.
RequestFailedResult(message) ==
    << AssertResult(Fail, RequestFailed, [kind |-> "RequestFailed", message |-> message]) >>

\* assert without the early return for a failed request: one Fail per
\* declared assertion.
assert_NoOverride(msg) ==
    IF IsSome(msg.response)
    THEN [i \in 1..Len(msg.assertions) |-> AssertOne(msg.assertions[i], Unwrap(msg.response))]
    ELSE [i \in 1..Len(msg.assertions) |->
            AssertResult(Fail, msg.assertions[i],
                         [kind |-> "RequestFailed", message |-> Unwrap(msg.error)])]

\* assert reporting the assertions that failed only.
assert_FailuresOnly(msg) ==
    IF IsSome(msg.error) THEN RequestFailedResult(Unwrap(msg.error))
    ELSE IF ~IsSome(msg.response) THEN RequestFailedResult("")
    ELSE LET IsFail(r) == r.status = Fail IN
         SelectSeq([i \in 1..Len(msg.assertions) |->
                       AssertOne(msg.assertions[i], Unwrap(msg.response))], IsFail)

\* impl Assert for RunnerResult.
assert(msg) ==
    IF IsSome(msg.error) THEN RequestFailedResult(Unwrap(msg.error))
    ELSE IF ~IsSome(msg.response) THEN RequestFailedResult("")
    ELSE [i \in 1..Len(msg.assertions) |-> AssertOne(msg.assertions[i], Unwrap(msg.response))]

\* OutputTuple carrying the whole URL as its path.
OutputTuple_WholeUrl(msg) ==
    [name |-> msg.name, path |-> UrlText(msg.url), method |-> msg.method, results |-> assert(msg)]

\* The tuple Asserter::run sends for one message: url.path() drops the query.
OutputTuple(msg) ==
    [name |-> msg.name, path |-> msg.url.path, method |-> msg.method, results |-> assert(msg)]

\* AsserterRecv with the messages handled by concurrent workers: any queued
\* message may be the next one taken.
AsserterRecv_Any ==
    /\ apc = "Recv"
    /\ runner_ch # <<>>
    /\ \E i \in 1..Len(runner_ch) :
         /\ runner_ch' = [k \in 1..(Len(runner_ch) - 1) |->
                            IF k < i THEN runner_ch[k] ELSE runner_ch[k + 1]]
         /\ taken' = Append(taken, runner_ch[i].name)
         /\ output_ch' = Append(output_ch, OutputTuple(runner_ch[i]))
         /\ emitted' = Append(emitted, runner_ch[i].name)
    /\ UNCHANGED <<plan, before_run_reset, n_sql, before_each_group, before_each_test, pc, gi,
                   ti, before_group, test, si, ai, result, inflight, apc, rpc, passed_count,
                   failed_count, failed_tests, all_passed_printed, main_result, call,
                   httpCount, sentLog, received, receivedResults, hookResets, hookInserts,
                   hookError, executed, httpErr>>

\* AsserterRecv with the outcome of a failed request dropped instead of sent.
AsserterRecv_SkipFailed ==
    /\ apc = "Recv"
    /\ runner_ch # <<>>
    /\ runner_ch' = Tail(runner_ch)
    /\ taken' = Append(taken, Head(runner_ch).name)
    /\ IF IsSome(Head(runner_ch).error)
       THEN UNCHANGED <<output_ch, emitted>>
       ELSE /\ output_ch' = Append(output_ch, OutputTuple(Head(runner_ch)))
            /\ emitted' = Append(emitted, Head(runner_ch).name)
    /\ UNCHANGED <<plan, before_run_reset, n_sql, before_each_group, before_each_test, pc, gi,
                   ti, before_group, test, si, ai, result, inflight, apc, rpc, passed_count,
                   failed_count, failed_tests, all_passed_printed, main_result, call,
                   httpCount, sentLog, received, receivedResults, hookResets, hookInserts,
                   hookError, executed, httpErr>>

\* One turn of the loop of Asserter::run: rx.recv_async().await returns
\* Ok(msg), msg.assert() is computed and the tuple is sent.  send_async on an
\* unbounded channel completes without suspending; todo!() panics when the
\* receiver is dropped.
AsserterRecv ==
    /\ apc = "Recv"
    /\ runner_ch # <<>>
    /\ runner_ch' = Tail(runner_ch)
    /\ taken' = Append(taken, Head(runner_ch).name)
    /\ IF OutPutterRxDropped
       THEN apc' = "Crashed" /\ UNCHANGED <<output_ch, emitted>>
       ELSE /\ output_ch' = Append(output_ch, OutputTuple(Head(runner_ch)))
            /\ emitted' = Append(emitted, Head(runner_ch).name)
            /\ apc' = "Recv"
    /\ UNCHANGED <<plan, before_run_reset, n_sql, before_each_group, before_each_test, pc, gi,
                   ti, before_group, test, si, ai, result, inflight, rpc, passed_count,
                   failed_count, failed_tests, all_passed_printed, main_result, call,
                   httpCount, sentLog, received, receivedResults, hookResets, hookInserts,
                   hookError, executed, httpErr>>

\* rx.recv_async().await returns Err: the channel is empty and every sender is
\* dropped.  Asserter::run returns Ok(()) and drops output_tx.
AsserterClose ==
    /\ apc = "Recv"
    /\ runner_ch = <<>>
    /\ RunnerTxDropped
    /\ apc' = "Done"
    /\ UNCHANGED <<plan, before_run_reset, n_sql, before_each_group, before_each_test, pc, gi,
                   ti, before_group, test, si, ai, result, inflight, runner_ch, output_ch, rpc,
                   passed_count, failed_count, failed_tests, all_passed_printed, main_result,
                   call, httpCount, sentLog, taken, emitted, received, receivedResults,
                   hookResets, hookInserts, hookError, executed, httpErr>>

Evaluator == AsserterRecv \/ AsserterClose

\* ------------------------------------------------------------ outputter.rs
\* CountStatus with the loop left at the first result that failed.
RECURSIVE CountStatus_StopAtFail(_, _)
CountStatus_StopAtFail(results, st) ==
    IF results = <<>> THEN 0
    ELSE IF results[1].status = Fail THEN (IF st = Fail THEN 1 ELSE 0)
    ELSE (IF results[1].status = st THEN 1 ELSE 0) + CountStatus_StopAtFail(Tail(results), st)

\* The results of a bundle from position i on, counted and collected as the
\* loop over result.iter() does.
RECURSIVE CountStatus(_, _)
CountStatus(results, st) ==
    IF results = <<>> THEN 0
    ELSE (IF results[1].status = st THEN 1 ELSE 0) + CountStatus(Tail(results), st)

RECURSIVE FailedOf(_, _)
FailedOf(bundle, results) ==
    IF results = <<>> THEN <<>>
    ELSE (IF results[1].status = Fail
          THEN << [name |-> bundle.name, method |-> bundle.method, path |-> bundle.path,
                   result |-> results[1]] >>
          ELSE <<>>) \o FailedOf(bundle, Tail(results))

\* rx.recv_async().await returns Ok(bundle): every result is counted and printed.
OutPutterRecv ==
    /\ rpc = "Recv"
    /\ output_ch # <<>>
    /\ LET bundle == Head(output_ch) IN
         /\ passed_count' = passed_count + CountStatus(bundle.results, Pass)
         /\ failed_count' = failed_count + CountStatus(bundle.results, Fail)
         /\ failed_tests' = failed_tests \o FailedOf(bundle, bundle.results)
         /\ received' = Append(received, bundle.name)
         /\ receivedResults' = receivedResults + Len(bundle.results)
    /\ output_ch' = Tail(output_ch)
    /\ UNCHANGED <<plan, before_run_reset, n_sql, before_each_group, before_each_test, pc, gi,
                   ti, before_group, test, si, ai, result, inflight, runner_ch, apc, rpc,
                   all_passed_printed, main_result, call, httpCount, sentLog, taken, emitted,
                   hookResets, hookInserts, hookError, executed, httpErr>>

\* rx.recv_async().await returns Err: the summary is printed and start returns.
OutPutterFinish ==
    /\ rpc = "Recv"
    /\ output_ch = <<>>
    /\ AsserterTxDropped
    /\ all_passed_printed' = (failed_count = 0)
    /\ rpc' = "Done"
    /\ UNCHANGED <<plan, before_run_reset, n_sql, before_each_group, before_each_test, pc, gi,
                   ti, before_group, test, si, ai, result, inflight, runner_ch, apc, output_ch,
                   passed_count, failed_count, failed_tests, main_result, call, httpCount,
                   sentLog, taken, emitted, received, receivedResults, hookResets, hookInserts,
                   hookError, executed, httpErr>>

Reporter == OutPutterRecv \/ OutPutterFinish

\* ------------------------------------------------------------------ main
\* What the JoinHandle of the Coordinator's task yields: the Result run_tests
\* returned, or the JoinError of a task that panicked.
RunnerJoined ==
    IF pc = "Failed" THEN "Err(DatabaseError)"
    ELSE IF pc = "Crashed" THEN "JoinError"
    ELSE "Ok"

\* What main returns after `let _ = futures::join!(..)`: the joined results
\* are bound to `_` and main ends with Ok(()).
MainReturn(runner_joined) == "Ok"

\* Main with the application killed without waiting for the join.
Main_KillFirst ==
    /\ main_result = None
    /\ main_result' = Some(MainReturn(RunnerJoined))
    /\ UNCHANGED <<plan, before_run_reset, n_sql, before_each_group, before_each_test, pc, gi,
                   ti, before_group, test, si, ai, result, inflight, runner_ch, apc, output_ch,
                   rpc, passed_count, failed_count, failed_tests, all_passed_printed, call,
                   httpCount, sentLog, taken, emitted, received, receivedResults, hookResets,
                   hookInserts, hookError, executed, httpErr>>

\* cleanup_and_teardown and the end of main: the three tasks are joined, the
\* application is killed and main returns.
Main ==
    /\ main_result = None
    /\ RunnerFinished /\ AsserterFinished /\ OutPutterFinished
    /\ main_result' = Some(MainReturn(RunnerJoined))
    /\ UNCHANGED <<plan, before_run_reset, n_sql, before_each_group, before_each_test, pc, gi,
                   ti, before_group, test, si, ai, result, inflight, runner_ch, apc, output_ch,
                   rpc, passed_count, failed_count, failed_tests, all_passed_printed, call,
                   httpCount, sentLog, taken, emitted, received, receivedResults, hookResets,
                   hookInserts, hookError, executed, httpErr>>

\* ------------------------------------------------ any_db: the normalizer
\* DbValue, by its variant and the text of what it carries.
DbValue(tag, val) == [tag |-> tag, val |-> val]
DbNull == DbValue("Null", "")
DbUnsupported == DbValue("Unsupported", "")

\* The match on col.type_info().to_string(): the DbValue variant of each type
\* name that has an arm, per engine.
PgTable ==
    [t \in {"INT2", "INT4", "INT8", "FLOAT4", "FLOAT8", "BOOL", "TEXT", "VARCHAR", "CHAR",
            "UUID", "NUMERIC", "JSON", "JSONB", "BYTEA", "DATE", "TIMESTAMP", "TIMESTAMPTZ"} |->
        CASE t \in {"INT2", "INT4", "INT8"} -> "I64"
          [] t \in {"FLOAT4", "FLOAT8"} -> "F64"
          [] t = "BOOL" -> "Bool"
          [] t \in {"TEXT", "VARCHAR", "CHAR"} -> "String"
          [] t = "UUID" -> "Uuid"
          [] t = "NUMERIC" -> "Decimal"
          [] t \in {"JSON", "JSONB"} -> "Json"
          [] t = "BYTEA" -> "Bytes"
          [] t = "DATE" -> "Date"
          [] t = "TIMESTAMP" -> "DateTime"
          [] t = "TIMESTAMPTZ" -> "Timestamp"]

MySqlTable ==
    [t \in {"TINYINT", "SMALLINT", "MEDIUMINT", "INT", "BIGINT", "FLOAT", "DOUBLE", "DECIMAL",
            "BOOLEAN", "BIT", "CHAR", "VARCHAR", "TEXT", "TINYTEXT", "MEDIUMTEXT", "LONGTEXT",
            "BLOB", "TINYBLOB", "MEDIUMBLOB", "LONGBLOB", "BINARY", "VARBINARY",
            "DATE", "DATETIME", "TIMESTAMP", "JSON"} |->
        CASE t \in {"TINYINT", "SMALLINT", "MEDIUMINT", "INT", "BIGINT"} -> "I64"
          [] t \in {"FLOAT", "DOUBLE"} -> "F64"
          [] t = "DECIMAL" -> "Decimal"
          [] t \in {"BOOLEAN", "BIT"} -> "Bool"
          [] t \in {"CHAR", "VARCHAR", "TEXT", "TINYTEXT", "MEDIUMTEXT", "LONGTEXT"} -> "String"
          [] t \in {"BLOB", "TINYBLOB", "MEDIUMBLOB", "LONGBLOB", "BINARY", "VARBINARY"} -> "Bytes"
          [] t = "DATE" -> "Date"
          [] t = "DATETIME" -> "DateTime"
          [] t = "TIMESTAMP" -> "Timestamp"
          [] t = "JSON" -> "Json"]

DecodeTable(engine) == IF engine = "postgres" THEN PgTable ELSE MySqlTable

\* A column of a raw engine row: the type name the engine reports and the
\* stored value as text, SqlNull for NULL.
SqlNull == "NULL"
RawColumn(typ, raw) == [typ |-> typ, raw |-> raw]

\* A stored value the Rust type of the arm cannot hold: a NUMERIC NaN, a
\* DECIMAL beyond 96 bits.
NotANumber == "NaN"
TooWide == "10000000000000000000000000000000000000000"

\* TryGet with a boolean arm whose Rust type does not take the column.
TryGet_NoBool(col) ==
    IF col.raw \in {SqlNull, NotANumber, TooWide, "true"} THEN [ok |-> FALSE]
    ELSE [ok |-> TRUE, val |-> col.raw]

\* row.try_get::<T, _>(name) with the T of the arm: Err for a NULL (T is not an
\* Option) and for a value T cannot hold.
TryGet(col) ==
    IF col.raw = SqlNull THEN [ok |-> FALSE]
    ELSE IF col.raw \in {NotANumber, TooWide} THEN [ok |-> FALSE]
    ELSE [ok |-> TRUE, val |-> col.raw]

\* FromColumn with the fallback arm giving Null.
FromColumn_NullFallback(engine, col) ==
    IF col.typ \in DOMAIN DecodeTable(engine) /\ TryGet(col).ok
    THEN DbValue(DecodeTable(engine)[col.typ], TryGet(col).val)
    ELSE DbNull

\* One turn of `for col in row.columns()`: the value pushed for the column.
FromColumn(engine, col) ==
    IF col.typ \in DOMAIN DecodeTable(engine)
    THEN (IF TryGet(col).ok THEN DbValue(DecodeTable(engine)[col.typ], TryGet(col).val)
          ELSE DbNull)
    ELSE DbUnsupported

\* FromRow with the values pushed in front of the earlier ones.
RECURSIVE FromRow_Prepend(_, _)
FromRow_Prepend(engine, row) ==
    IF row = <<>> THEN <<>>
    ELSE FromRow_Prepend(engine, Tail(row)) \o << FromColumn(engine, Head(row)) >>

\* From<PgRow> / From<MySqlRow> for AnyRow.
FromRow(engine, row) == [i \in 1..Len(row) |-> FromColumn(engine, row[i])]

\* What a call of raw_sql ends in: Ok(rows), Err(e), or a panic of the task
\* that called it.
RawOk(rows) == [outcome |-> "Ok", rows |-> rows, error |-> ""]
RawErr(e) == [outcome |-> "Err", rows |-> <<>>, error |-> e]
RawPanic(e) == [outcome |-> "panic", rows |-> <<>>, error |-> e]

\* AnyDbPool::raw_sql of db.rs: `fetch_all(pool).await?`.
raw_sql_Propagate(engine, fetched) ==
    IF fetched.ok THEN RawOk([i \in 1..Len(fetched.rows) |-> FromRow(engine, fetched.rows[i])])
    ELSE RawErr(fetched.error)

\* AnyDbPool::raw_sql of any_db.rs: `pool.fetch_all(query).await.unwrap()`,
\* the same in both arms, then every row is normalized.
raw_sql(engine, fetched) ==
    IF fetched.ok THEN RawOk([i \in 1..Len(fetched.rows) |-> FromRow(engine, fetched.rows[i])])
    ELSE RawPanic(fetched.error)

\* ------------------------------------------- the assertion functions alone
\* The declared codes (i32) and the actual statuses assert_status is called on.
DeclaredCodes == {-65336, -1, 0, 99, 100, 200, 201, 404, 999, 1000, 65736, 65940}
ActualStatuses == {200, 404}

StatusCalls ==
    { Call("assert_status", [s |-> s, status |-> st]) : s \in DeclaredCodes, st \in ActualStatuses }

\* The header maps assert_header is called on: parse_header_map inserts, so
\* a declared name has one value; a response may repeat a name.
HeaderNames == {"etag", "x-trace"}
HeaderValues == {"abc", "abd"}
HeaderMaps == UNION { [1..k -> HeaderNames \X HeaderValues] : k \in 0..MaxHeaders }
DeclaredMaps ==
    { m \in HeaderMaps : \A i, j \in 1..Len(m) : m[i][1] = m[j][1] => i = j }

HeaderCalls ==
    { Call("assert_header", [expected |-> e, actual |-> a]) : e \in DeclaredMaps, a \in HeaderMaps }

\* The declared JSON values and the body texts assert_json is reached with:
\* the body is parsed by from_str before it is compared.
JsonCalls ==
    { Call("assert_json", [expected |-> e, body_text |-> t]) :
        e \in {JsonNull, JsonArrayOfOne},
        t \in {"[ 1 ]", "null", "", "<html>", "Failed to read body: connection reset"} }

\* The expectations and the rows assert_sql is called on: a got that was
\* never filled in, or the strings of up to MaxRows rows.
RowStrings == {"", "a", "b"}
RowSeqs == UNION { [1..k -> RowStrings] : k \in 0..MaxRows }
SqlCalls ==
    { Call("assert_sql", [expect |-> e, got |-> g]) :
        e \in { Single(v) : v \in RowStrings } \cup { Multiple(vs) : vs \in RowSeqs },
        g \in {None} \cup { Some(rows) : rows \in RowSeqs } }

\* The results fetch_all gives run_sql_assertions for one query: an error, or
\* up to MaxRows rows whose first column is one of these cells.
Cells == <<TextCell(""), TextCell("a"), IntCell(1), BoolCell(TRUE), NullCell, OtherCell>>
CellRows == UNION { [1..k -> 1..Len(Cells)] : k \in 0..MaxRows }
RowsOf(cells) == [i \in 1..Len(cells) |-> Cells[cells[i]]]
QueryErrors == {"relation t does not exist"}

\* The raw rows the normalizer is called on: up to MaxCols columns, each of
\* a type with an arm or without one, holding NULL, a value, or a value the
\* arm's Rust type cannot hold.
Engines == {"postgres", "mysql"}
RawColumns(engine) ==
    IF engine = "postgres"
    THEN { RawColumn("BOOL", v) : v \in {SqlNull, "true"} }
           \cup { RawColumn("INT4", v) : v \in {SqlNull, "42"} }
           \cup { RawColumn("NUMERIC", v) : v \in {SqlNull, "123.45", NotANumber} }
           \cup { RawColumn("INTERVAL", v) : v \in {SqlNull, "1 day"} }
    ELSE { RawColumn("BOOLEAN", v) : v \in {SqlNull, "true"} }
           \cup { RawColumn("BIGINT", v) : v \in {SqlNull, "1337"} }
           \cup { RawColumn("DECIMAL", v) : v \in {SqlNull, "123.45", TooWide} }
           \cup { RawColumn("YEAR", v) : v \in {SqlNull, "2025"} }
RawRows(engine) == UNION { [1..k -> RawColumns(engine)] : k \in 0..MaxCols }
FromCalls ==
    { Call("from", [engine |-> e[1], row |-> e[2]]) :
        e \in UNION { {n} \X RawRows(n) : n \in Engines } }

\* What fetch_all gives raw_sql: the database's rejection of the query, or up
\* to MaxRows of these rows.
SampleRows(engine) ==
    IF engine = "postgres"
    THEN { << RawColumn("BOOL", "true") >>,
           << RawColumn("NUMERIC", NotANumber), RawColumn("INT4", "42") >>,
           << RawColumn("INTERVAL", "1 day"), RawColumn("INT4", "42") >> }
    ELSE { << RawColumn("BOOLEAN", "true") >>,
           << RawColumn("DECIMAL", TooWide), RawColumn("BIGINT", "1337") >>,
           << RawColumn("YEAR", "2025"), RawColumn("BIGINT", "1337") >> }
Fetched(engine) ==
    { QueryErr(e) : e \in QueryErrors }
      \cup { QueryOk(rows) : rows \in UNION { [1..k -> SampleRows(engine)] : k \in 0..MaxRows } }
RawSqlCalls ==
    { Call("raw_sql", [engine |-> e[1], fetched |-> e[2]]) :
        e \in UNION { {n} \X Fetched(n) : n \in Engines } }

\* reset_database: the queries it issues on the acquired connection.
SqliteCatalog == "SELECT name FROM sqlite_master WHERE type='table' AND name NOT LIKE 'sqlite_%'"
InformationSchema == "SELECT table_name::text AS table_name FROM information_schema.tables"
Truncate(table) == "TRUNCATE TABLE " \o table \o " CASCADE"
Delete(table) == "DELETE FROM " \o table
ResetSeq(table) == "ALTER SEQUENCE " \o table \o "_id_seq RESTART WITH 1"

\* What reset_database has done when it returns: the queries issued, in
\* order, and the Result returned (the error is that of the named query).
Done(log, res) == [log |-> log, result |-> res]
ResetOk == [ok |-> TRUE, error |-> ""]
ResetErr(query) == [ok |-> FALSE, error |-> query]

\* The `for table in tables` loop with the Result of the DELETE dropped.
RECURSIVE ResetTables_DeleteIgnored(_, _, _)
ResetTables_DeleteIgnored(env, tables, log) ==
    IF tables = <<>> THEN Done(log, ResetOk)
    ELSE LET table == Head(tables)
             cleared == IF env.truncate[table] THEN log \o << Truncate(table) >>
                        ELSE log \o << Truncate(table), Delete(table) >>
         IN ResetTables_DeleteIgnored(env, Tail(tables), cleared \o << ResetSeq(table) >>)

\* The `for table in tables` loop with the sequence reset followed by `?`.
RECURSIVE ResetTables_SeqPropagated(_, _, _)
ResetTables_SeqPropagated(env, tables, log) ==
    IF tables = <<>> THEN Done(log, ResetOk)
    ELSE LET table == Head(tables)
             cleared == IF env.truncate[table] THEN log \o << Truncate(table) >>
                        ELSE log \o << Truncate(table), Delete(table) >>
         IN IF ~env.truncate[table] /\ ~env.delete[table]
            THEN Done(cleared, ResetErr(Delete(table)))
            ELSE IF ~env.seq[table]
            THEN Done(cleared \o << ResetSeq(table) >>, ResetErr(ResetSeq(table)))
            ELSE ResetTables_SeqPropagated(env, Tail(tables), cleared \o << ResetSeq(table) >>)

\* The `for table in tables` loop: TRUNCATE, on Err DELETE followed by `?`,
\* then the sequence reset under `let _ =`.
RECURSIVE ResetTables(_, _, _)
ResetTables(env, tables, log) ==
    IF tables = <<>> THEN Done(log, ResetOk)
    ELSE LET table == Head(tables)
             cleared == IF env.truncate[table] THEN log \o << Truncate(table) >>
                        ELSE log \o << Truncate(table), Delete(table) >>
         IN IF ~env.truncate[table] /\ ~env.delete[table]
            THEN Done(cleared, ResetErr(Delete(table)))
            ELSE ResetTables(env, Tail(tables), cleared \o << ResetSeq(table) >>)

\* reset_database with `Ok(t) => t`: an empty SQLite answer is taken as is.
reset_database_NoEmptyFallback(env) ==
    IF ~env.acquire THEN Done(<<>>, ResetErr("acquire"))
    ELSE IF env.sqlite.ok
    THEN ResetTables(env, env.sqlite.tables, << SqliteCatalog >>)
    ELSE IF env.info.ok
    THEN ResetTables(env, env.info.tables, << SqliteCatalog, InformationSchema >>)
    ELSE Done(<< SqliteCatalog, InformationSchema >>, ResetErr(InformationSchema))

\* reset_database(pool): env holds the answer of the pool and of the
\* database to each thing that is asked of them.
reset_database(env) ==
    IF ~env.acquire THEN Done(<<>>, ResetErr("acquire"))
    ELSE IF env.sqlite.ok /\ env.sqlite.tables # <<>>
    THEN ResetTables(env, env.sqlite.tables, << SqliteCatalog >>)
    ELSE IF env.info.ok
    THEN ResetTables(env, env.info.tables, << SqliteCatalog, InformationSchema >>)
    ELSE Done(<< SqliteCatalog, InformationSchema >>, ResetErr(InformationSchema))

\* The databases reset_database is called on: up to MaxTables tables, each
\* catalog query failing or listing the first tables, each statement on a
\* table succeeding or failing.
TableNames == << "t", "u", "v", "w" >>
Tables == { TableNames[i] : i \in 1..MaxTables }
Catalogs ==
    { [ok |-> FALSE, tables |-> <<>>] }
      \cup { [ok |-> TRUE, tables |-> SubSeq(TableNames, 1, n)] : n \in 0..MaxTables }
Databases ==
    [acquire : BOOLEAN, sqlite : Catalogs, info : Catalogs,
     truncate : [Tables -> BOOLEAN], delete : [Tables -> BOOLEAN], seq : [Tables -> BOOLEAN]]

\* The Result of start_db_and_app and of main: Ok, or the error variant and
\* the DbError or AppError inside it.
StartOk == [ok |-> TRUE, error |-> "", cause |-> ""]
StartErr(error, cause) == [ok |-> FALSE, error |-> error, cause |-> cause]

\* wait_for_db from its i-th try on: `SELECT 1` through raw_sql, at most
\* MaxTries times, until one is_ok().
RECURSIVE wait_for_db(_, _)
wait_for_db(env, i) ==
    IF i > MaxTries THEN Done(<<>>, StartErr("DatabaseError", "DatabaseTimeout"))
    ELSE IF raw_sql_Propagate(env.db_type,
                              IF i > env.ready_after THEN QueryOk(<<>>)
                              ELSE QueryErr("connection refused")).outcome = "Ok"
    THEN Done(<< "SELECT 1" >>, StartOk)
    ELSE LET rest == wait_for_db(env, i + 1)
         IN Done(<< "SELECT 1" >> \o rest.log, rest.result)

\* What client.get(&url).send().await gives in round `elapsed`: before the
\* application is ready a connection error or an error status, then 200 or 204.
Probe(app, elapsed) ==
    IF elapsed >= app.ready_after THEN [ok |-> TRUE, status |-> app.status]
    ELSE IF app.failure = "refused" \/ (app.failure = "mixed" /\ elapsed % 2 = 0)
    THEN [ok |-> FALSE, status |-> 0]
    ELSE [ok |-> TRUE, status |-> 503]

\* resp.status().is_success()
is_success(status) == 200 <= status /\ status < 300

\* wait_for_app_ready with `if let Ok(resp)` alone: any response ends the wait.
RECURSIVE wait_for_app_ready_AnyResponse(_, _)
wait_for_app_ready_AnyResponse(app, elapsed) ==
    IF ~(elapsed < timeout_secs) THEN Done(<<>>, StartErr("AppError", "Timeout"))
    ELSE IF Probe(app, elapsed).ok
    THEN Done(<< "GET" >>, StartOk)
    ELSE LET rest == wait_for_app_ready_AnyResponse(app, elapsed + 1)
         IN Done(<< "GET" >> \o rest.log, rest.result)

\* wait_for_app_ready from round `elapsed` on: one GET a round while
\* elapsed < timeout_secs, Ok(()) at the first response with a success
\* status, Err(AppError::Timeout) when the rounds are used up.
RECURSIVE wait_for_app_ready(_, _)
wait_for_app_ready(app, elapsed) ==
    IF ~(elapsed < timeout_secs) THEN Done(<<>>, StartErr("AppError", "Timeout"))
    ELSE IF Probe(app, elapsed).ok /\ is_success(Probe(app, elapsed).status)
    THEN Done(<< "GET" >>, StartOk)
    ELSE LET rest == wait_for_app_ready(app, elapsed + 1)
         IN Done(<< "GET" >> \o rest.log, rest.result)

\* StartApp that returns the timeout and leaves the application running.
StartApp_NoKill(env, log) ==
    IF ~env.spawn THEN Done(log \o << "from_command" >>, StartErr("AppError", "SpawningAppFailed"))
    ELSE IF ~env.app_ready
    THEN Done(log \o << "from_command", "wait_for_app_ready" >>, StartErr("AppTimeout", "Timeout"))
    ELSE Done(log \o << "from_command", "wait_for_app_ready" >>, StartOk)

\* start_db_and_app from the spawning of the application on.
StartApp(env, log) ==
    IF ~env.spawn THEN Done(log \o << "from_command" >>, StartErr("AppError", "SpawningAppFailed"))
    ELSE IF ~env.app_ready
    THEN Done(log \o << "from_command", "wait_for_app_ready", "kill" >>,
              StartErr("AppTimeout", "Timeout"))
    ELSE Done(log \o << "from_command", "wait_for_app_ready" >>, StartOk)

\* start_db_and_app with the result of wait_for_db dropped.
start_db_and_app_WaitIgnored(env) ==
    IF env.db_type \notin {"postgres", "mysql", "mariadb"}
    THEN Done(<< "from_type" >>, StartErr("DatabaseError", "UnknownDb"))
    ELSE IF ~env.container
    THEN Done(<< "from_type" >>, StartErr("DatabaseError", "TestContainer"))
    ELSE IF ~env.connect
    THEN Done(<< "from_type", "connection_pool" >>, StartErr("DatabaseError", "DatabaseError"))
    ELSE LET waited == << "from_type", "connection_pool" >> \o wait_for_db(env, 1).log
             migrated == IF env.migration = "none" THEN waited ELSE waited \o << "migrate" >>
             loaded == IF env.init_sql = "none" THEN migrated
                       ELSE IF env.init_sql = "unreadable" THEN migrated \o << "read_to_string" >>
                       ELSE migrated \o << "read_to_string", "raw_sql(init_sql)" >>
         IN IF env.migration = "fails"
            THEN Done(migrated, StartErr("DatabaseError", "MigrationError"))
            ELSE IF env.init_sql = "unreadable"
            THEN Done(loaded, StartErr("DatabaseError", "InitSql"))
            ELSE IF env.init_sql = "rejected"
            THEN Done(loaded, StartErr("DatabaseError", "DatabaseError"))
            ELSE StartApp(env, loaded)

\* start_db_and_app(env_setup, stream_app): from_type, connection_pool,
\* wait_for_db, run_migrations and load_init_sql, each error mapped to
\* StartUpError::DatabaseError and returned, then the application.
start_db_and_app(env) ==
    IF env.db_type \notin {"postgres", "mysql", "mariadb"}
    THEN Done(<< "from_type" >>, StartErr("DatabaseError", "UnknownDb"))
    ELSE IF ~env.container
    THEN Done(<< "from_type" >>, StartErr("DatabaseError", "TestContainer"))
    ELSE IF ~env.connect
    THEN Done(<< "from_type", "connection_pool" >>, StartErr("DatabaseError", "DatabaseError"))
    ELSE LET waited == << "from_type", "connection_pool" >> \o wait_for_db(env, 1).log
             migrated == IF env.migration = "none" THEN waited ELSE waited \o << "migrate" >>
             loaded == IF env.init_sql = "none" THEN migrated
                       ELSE IF env.init_sql = "unreadable" THEN migrated \o << "read_to_string" >>
                       ELSE migrated \o << "read_to_string", "raw_sql(init_sql)" >>
         IN IF ~wait_for_db(env, 1).result.ok
            THEN Done(waited, wait_for_db(env, 1).result)
            ELSE IF env.migration = "fails"
            THEN Done(migrated, StartErr("DatabaseError", "MigrationError"))
            ELSE IF env.init_sql = "unreadable"
            THEN Done(loaded, StartErr("DatabaseError", "InitSql"))
            ELSE IF env.init_sql = "rejected"
            THEN Done(loaded, StartErr("DatabaseError", "DatabaseError"))
            ELSE StartApp(env, loaded)

\* main after the configuration is loaded: start_db_and_app, its error
\* returned as TestQuestError::StartUpError, else the pipeline and the teardown.
main(env) ==
    IF start_db_and_app(env).result.ok
    THEN Done(start_db_and_app(env).log \o << "run_pipeline_tasks", "cleanup_and_teardown" >>,
              StartOk)
    ELSE Done(start_db_and_app(env).log,
              StartErr("StartUpError::" \o start_db_and_app(env).result.error,
                       start_db_and_app(env).result.cause))

\* The environments main is started in: the configured database type, and
\* what each step of the start-up meets (ready_after failed tries of
\* `SELECT 1` before the database answers).
Environments ==
    [db_type : {"postgres", "mysql", "oracle"}, container : BOOLEAN, connect : BOOLEAN,
     ready_after : {0, MaxTries - 1, MaxTries}, migration : {"none", "fails", "ok"},
     init_sql : {"none", "unreadable", "rejected", "ok"}, spawn : BOOLEAN, app_ready : BOOLEAN]

\* The databases and the applications the readiness probes are run against:
\* ready after some number of failed probes, or never within the limit.
SlowDatabases == [db_type : {"postgres", "mysql"}, ready_after : 0..MaxTries]
SlowApps ==
    [ready_after : 0..timeout_secs, failure : {"refused", "503", "mixed"}, status : {200, 204}]

CallInit ==
    /\ \/ call \in StatusCalls
       \/ \E env \in SlowDatabases : call = Call("wait_for_db", [env |-> env])
       \/ \E app \in SlowApps : call = Call("wait_for_app_ready", [app |-> app])
       \/ \E env \in Environments : call = Call("main", [env |-> env])
       \/ \E env \in Databases : call = Call("reset_database", [env |-> env])
       \/ call \in RawSqlCalls
       \/ call \in FromCalls
       \/ \E e \in QueryErrors : call = Call("run_sql_assertions", [q |-> QueryErr(e)])
       \/ \E cells \in CellRows : call = Call("run_sql_assertions", [q |-> QueryOk(RowsOf(cells))])
       \/ call \in SqlCalls
       \/ call \in HeaderCalls
       \/ call \in JsonCalls
    /\ before_run_reset = FALSE
    /\ n_sql = MaxSql
    /\ before_each_group = None
    /\ before_each_test = None
    /\ PipelineInit({<<>>})

\* assert_status(&s, status) returns.
AssertStatus ==
    /\ call.fn = "assert_status" /\ call.ret = None
    /\ call' = [call EXCEPT !.ret = Some(assert_status(call.args.s, call.args.status))]
    /\ UNCHANGED <<plan, before_run_reset, n_sql, before_each_group, before_each_test, pc, gi,
                   ti, before_group, test, si, ai, result, inflight, runner_ch, apc, output_ch,
                   rpc, passed_count, failed_count, failed_tests, all_passed_printed,
                   main_result, httpCount, sentLog, taken, emitted, received, receivedResults,
                   hookResets, hookInserts, hookError, executed, httpErr>>

\* assert_header(&expected, &actual) returns.
AssertHeader ==
    /\ call.fn = "assert_header" /\ call.ret = None
    /\ call' = [call EXCEPT !.ret = Some(assert_header(call.args.expected, call.args.actual))]
    /\ UNCHANGED <<plan, before_run_reset, n_sql, before_each_group, before_each_test, pc, gi,
                   ti, before_group, test, si, ai, result, inflight, runner_ch, apc, output_ch,
                   rpc, passed_count, failed_count, failed_tests, all_passed_printed,
                   main_result, httpCount, sentLog, taken, emitted, received, receivedResults,
                   hookResets, hookInserts, hookError, executed, httpErr>>

\* assert_json(expected_json, response.body_json.as_ref()) returns, body_json
\* being what from_response parsed from the body text.
AssertJson ==
    /\ call.fn = "assert_json" /\ call.ret = None
    /\ call' = [call EXCEPT !.ret = Some(assert_json(call.args.expected,
                                                      FromStr(call.args.body_text)))]
    /\ UNCHANGED <<plan, before_run_reset, n_sql, before_each_group, before_each_test, pc, gi,
                   ti, before_group, test, si, ai, result, inflight, runner_ch, apc, output_ch,
                   rpc, passed_count, failed_count, failed_tests, all_passed_printed,
                   main_result, httpCount, sentLog, taken, emitted, received, receivedResults,
                   hookResets, hookInserts, hookError, executed, httpErr>>

\* assert_sql(expect, got.as_ref()) returns.
AssertSql ==
    /\ call.fn = "assert_sql" /\ call.ret = None
    /\ call' = [call EXCEPT !.ret = Some(assert_sql(call.args.expect, call.args.got))]
    /\ UNCHANGED <<plan, before_run_reset, n_sql, before_each_group, before_each_test, pc, gi,
                   ti, before_group, test, si, ai, result, inflight, runner_ch, apc, output_ch,
                   rpc, passed_count, failed_count, failed_tests, all_passed_printed,
                   main_result, httpCount, sentLog, taken, emitted, received, receivedResults,
                   hookResets, hookInserts, hookError, executed, httpErr>>

\* run_sql_assertions on one Sql assertion: *got = Some(got_str).
RecordGot ==
    /\ call.fn = "run_sql_assertions" /\ call.ret = None
    /\ call' = [call EXCEPT !.ret = Some(Some(GotStr(call.args.q)))]
    /\ UNCHANGED <<plan, before_run_reset, n_sql, before_each_group, before_each_test, pc, gi,
                   ti, before_group, test, si, ai, result, inflight, runner_ch, apc, output_ch,
                   rpc, passed_count, failed_count, failed_tests, all_passed_printed,
                   main_result, httpCount, sentLog, taken, emitted, received, receivedResults,
                   hookResets, hookInserts, hookError, executed, httpErr>>

\* AnyRow::from(row) returns; the same row is normalized a second time.
From ==
    /\ call.fn = "from" /\ call.ret = None
    /\ call' = [call EXCEPT !.ret = Some(<< FromRow(call.args.engine, call.args.row),
                                             FromRow(call.args.engine, call.args.row) >>)]
    /\ UNCHANGED <<plan, before_run_reset, n_sql, before_each_group, before_each_test, pc, gi,
                   ti, before_group, test, si, ai, result, inflight, runner_ch, apc, output_ch,
                   rpc, passed_count, failed_count, failed_tests, all_passed_printed,
                   main_result, httpCount, sentLog, taken, emitted, received, receivedResults,
                   hookResets, hookInserts, hookError, executed, httpErr>>

\* pool.raw_sql(query).await ends.
RawSql ==
    /\ call.fn = "raw_sql" /\ call.ret = None
    /\ call' = [call EXCEPT !.ret = Some(raw_sql(call.args.engine, call.args.fetched))]
    /\ UNCHANGED <<plan, before_run_reset, n_sql, before_each_group, before_each_test, pc, gi,
                   ti, before_group, test, si, ai, result, inflight, runner_ch, apc, output_ch,
                   rpc, passed_count, failed_count, failed_tests, all_passed_printed,
                   main_result, httpCount, sentLog, taken, emitted, received, receivedResults,
                   hookResets, hookInserts, hookError, executed, httpErr>>

\* reset_database(&pool).await returns.
ResetDatabase ==
    /\ call.fn = "reset_database" /\ call.ret = None
    /\ call' = [call EXCEPT !.ret = Some(reset_database(call.args.env))]
    /\ UNCHANGED <<plan, before_run_reset, n_sql, before_each_group, before_each_test, pc, gi,
                   ti, before_group, test, si, ai, result, inflight, runner_ch, apc, output_ch,
                   rpc, passed_count, failed_count, failed_tests, all_passed_printed,
                   main_result, httpCount, sentLog, taken, emitted, received, receivedResults,
                   hookResets, hookInserts, hookError, executed, httpErr>>

\* main returns.
StartUp ==
    /\ call.fn = "main" /\ call.ret = None
    /\ call' = [call EXCEPT !.ret = Some(main(call.args.env))]
    /\ UNCHANGED <<plan, before_run_reset, n_sql, before_each_group, before_each_test, pc, gi,
                   ti, before_group, test, si, ai, result, inflight, runner_ch, apc, output_ch,
                   rpc, passed_count, failed_count, failed_tests, all_passed_printed,
                   main_result, httpCount, sentLog, taken, emitted, received, receivedResults,
                   hookResets, hookInserts, hookError, executed, httpErr>>

\* wait_for_db(&pool).await returns.
WaitForDb ==
    /\ call.fn = "wait_for_db" /\ call.ret = None
    /\ call' = [call EXCEPT !.ret = Some(wait_for_db(call.args.env, 1))]
    /\ UNCHANGED <<plan, before_run_reset, n_sql, before_each_group, before_each_test, pc, gi,
                   ti, before_group, test, si, ai, result, inflight, runner_ch, apc, output_ch,
                   rpc, passed_count, failed_count, failed_tests, all_passed_printed,
                   main_result, httpCount, sentLog, taken, emitted, received, receivedResults,
                   hookResets, hookInserts, hookError, executed, httpErr>>

\* wait_for_app_ready(base_url, ready_when).await returns.
WaitForAppReady ==
    /\ call.fn = "wait_for_app_ready" /\ call.ret = None
    /\ call' = [call EXCEPT !.ret = Some(wait_for_app_ready(call.args.app, 0))]
    /\ UNCHANGED <<plan, before_run_reset, n_sql, before_each_group, before_each_test, pc, gi,
                   ti, before_group, test, si, ai, result, inflight, runner_ch, apc, output_ch,
                   rpc, passed_count, failed_count, failed_tests, all_passed_printed,
                   main_result, httpCount, sentLog, taken, emitted, received, receivedResults,
                   hookResets, hookInserts, hookError, executed, httpErr>>

CallNext == WaitForDb \/ WaitForAppReady \/ StartUp \/ ResetDatabase \/ From \/ RawSql \/ AssertStatus \/ AssertHeader \/ AssertJson \/ AssertSql \/ RecordGot

CallSpec == CallInit /\ [][CallNext]_vars

\* ------------------------------------------------------------ the pipeline
Next == Coordinator \/ Evaluator \/ Reporter \/ Main

Spec == Init /\ [][Next]_vars

\* The same pipeline on the test files whose hooks have one statement more,
\* whose before_run hooks request a reset, and that declare a
\* before_each_group and a before_each_test hook (create_before_each keeps
\* both in the IR).
HookInit ==
    InitWith(TRUE, MaxSql + 1, Some([reset_db |-> TRUE, sql |-> << HookStatement >>]))
HookSpec == HookInit /\ [][Next]_vars

\* ----------------------------------------------------------- properties
Elems(seq) == { seq[i] : i \in 1..Len(seq) }
Names(ch) == [i \in 1..Len(ch) |-> ch[i].name]
Sent(id) == id \in Elems(sentLog)
SentCount(id) == Cardinality({ i \in 1..Len(sentLog) : sentLog[i] = id })
\* The RunnerResults that are sent and not yet received by the Evaluator.
Messages == Elems(runner_ch)
SqlGots(assertions) ==
    { assertions[i].got : i \in { k \in 1..Len(assertions) : assertions[k].kind = "Sql" } }

\* C1: test cases run strictly one at a time, within and across groups: at
\* most one awaited operation (reset, hook statement, HTTP request, assertion
\* query) is in progress, every operation in progress belongs to a case (or a
\* group hook) all of whose predecessors in plan order have had their outcome
\* sent, and no HTTP request was begun for a case before that.
C1_StrictlySequential ==
    /\ Cardinality(inflight) <= 1
    /\ \A op \in inflight : \A id \in CaseIds(plan) :
         /\ Before(id, op.case) => Sent(id)
         /\ (id = op.case \/ Before(op.case, id)) => ~Sent(id) /\ (id # op.case => httpCount[id] = 0)
    /\ \A id \in CaseIds(plan) : \A e \in CaseIds(plan) :
         httpCount[id] > 0 /\ Before(e, id) => Sent(e)

\* The request of the first case of the second group is in progress, the
\* outcome of the case before it sent.
C1_Witness ==
    /\ Op("http", <<2, 1>>) \in inflight
    /\ Sent(<<1, 1>>)

\* C2: once a reset or a hook statement has returned a database error,
\* run_tests has stopped with the error: nothing is in progress, and neither
\* the test case the hook belongs to nor any later one has had a request
\* sent, an assertion query answered or an outcome sent.
C2_HookErrorStopsRun ==
    hookError =>
      /\ pc = "Failed"
      /\ inflight = {}
      /\ \A id \in CaseIds(plan) :
           (id = CurrentCase \/ Before(CurrentCase, id)) =>
             /\ httpCount[id] = 0
             /\ ~Sent(id)
             /\ \A m \in Messages : m.name # id
      /\ IsSome(test) => SqlGots(Unwrap(test).assertions) \subseteq {None}

\* The first statement of the hook of the second case has failed, after the
\* first case ran; the case declares a Sql assertion.
C2_Witness ==
    /\ hookError
    /\ CurrentCase = <<1, 2>>
    /\ Sent(<<1, 1>>)
    /\ IsSome(Unwrap(test).before_run)
    /\ si = 1
    /\ SqlGots(Unwrap(test).assertions) # {}

\* C3: a transport failure never stops the run: the case whose request failed
\* is on its way to being sent or is sent, its outcome carries the error
\* message and no response, run_tests stops early only for a hook error, and
\* when it returns Ok every test case of the plan has had its outcome sent.
C3_TransportFailureContinues ==
    /\ \A id \in CaseIds(plan) :
         IsSome(httpErr[id]) =>
           \/ id = CurrentCase /\ pc \in {"SqlAssert", "SqlAssertAwait", "Send"}
           \/ Sent(id)
    /\ \A m \in Messages :
         /\ m.error = httpErr[m.name]
         /\ IsSome(m.error) <=> ~IsSome(m.response)
    /\ pc = "Failed" => hookError
    /\ pc # "Crashed"
    /\ pc = "Done" => \A id \in CaseIds(plan) : Sent(id)

\* The request of the first case failed, and the run went on to send the
\* outcome of the second case and to finish.
C3_Witness ==
    /\ pc = "Done"
    /\ <<1, 2>> \in CaseIds(plan)
    /\ IsSome(httpErr[<<1, 1>>])
    /\ sentLog = << <<1, 1>>, <<1, 2>> >>

\* C4: every test case has at most one request and at most one outcome, an
\* outcome only after its request, and on a run in which no hook fails
\* run_tests returns Ok with exactly one request and one outcome per case.
C4_ExactlyOnce ==
    /\ \A id \in CaseIds(plan) :
         /\ httpCount[id] <= 1
         /\ SentCount(id) <= 1
         /\ Sent(id) => httpCount[id] = 1
    /\ RunnerFinished /\ ~hookError =>
         /\ pc = "Done"
         /\ \A id \in CaseIds(plan) : httpCount[id] = 1 /\ SentCount(id) = 1

\* A finished run of two cases in two groups, the request of one failed.
C4_Witness ==
    /\ pc = "Done"
    /\ ~hookError
    /\ CaseIds(plan) = {<<1, 1>>, <<2, 1>>}
    /\ IsSome(httpErr[<<2, 1>>])

\* C5: the Reporter receives the bundles in plan order.
C5_PlanOrder ==
    \A i \in 1..Len(received) : \A j \in 1..Len(received) :
      i < j => Before(received[i], received[j])

\* Two bundles have been received.
C5_Witness == Len(received) >= 2

\* The scheduler runs a task that can take a step: the Evaluator and the
\* Reporter are tokio tasks that are ready whenever their channel holds a
\* message or is closed.
FairSpec == Spec /\ WF_vars(Evaluator) /\ WF_vars(Reporter)

\* C6: once run_tests has finished and dropped its sender, the Evaluator
\* eventually leaves its loop and the Reporter eventually terminates, with
\* both channels empty and every outcome sent received as a bundle.
C6_CascadingClose ==
    (pc \in {"Done", "Failed", "Crashed"}) ~>
      (/\ apc = "Done"
       /\ rpc = "Done"
       /\ runner_ch = <<>>
       /\ output_ch = <<>>
       /\ taken = sentLog
       /\ received = sentLog)

\* All three tasks have finished and two bundles were received.
C6_Witness ==
    /\ RunnerFinished /\ apc = "Done" /\ rpc = "Done"
    /\ Len(received) >= 2

\* C7: Asserter::run emits one tuple per message it received, in the order
\* received: the names emitted are the names taken, and they are the names
\* the Reporter has received followed by the names queued for it.
C7_OneOutputPerInput ==
    /\ emitted = taken
    /\ emitted = received \o Names(output_ch)
    /\ sentLog = taken \o Names(runner_ch)

\* The Evaluator has emitted two tuples, the first for a failed request.
C7_Witness ==
    /\ Len(emitted) >= 2
    /\ IsSome(httpErr[emitted[1]])

\* C8: for a transport failure the Evaluator produces exactly one
\* AssertResult, Fail, with the error message as its actual value, whatever
\* the assertions declared: this holds of what assert computes for every
\* outcome sent, and of every bundle queued for the Reporter.
IsRequestFailed(results, message) ==
    /\ Len(results) = 1
    /\ results[1].status = Fail
    /\ results[1].actual = [kind |-> "RequestFailed", message |-> message]

C8_TransportFailureOneResult ==
    /\ \A m \in Elems(runner_ch) :
         IsSome(httpErr[m.name]) =>
           IsRequestFailed(OutputTuple(m).results, Unwrap(httpErr[m.name]))
    /\ \A b \in Elems(output_ch) :
         IsSome(httpErr[b.name]) => IsRequestFailed(b.results, Unwrap(httpErr[b.name]))

\* The bundle of a failed request of a case that declared four assertions is
\* queued for the Reporter, and the outcome of a failed request of a case
\* that declared none is queued for the Evaluator.
C8_Witness ==
    /\ Len(output_ch) = 1
    /\ IsSome(httpErr[output_ch[1].name])
    /\ taken = << <<1, 1>> >>
    /\ Len(runner_ch) = 1
    /\ IsSome(runner_ch[1].error)
    /\ runner_ch[1].assertions = <<>>
    /\ passed_count = 0 /\ failed_count = 0

\* C9: the query of a Sql assertion is in progress only after the request of
\* its case has completed and before its outcome is sent; no got is filled
\* before the request has completed; and every outcome sent, response or
\* failure, has the got of each of its Sql assertions filled.
C9_SqlAfterHttp ==
    /\ \A op \in inflight :
         op.kind = "sql_assert" =>
           /\ op.case = CurrentCase
           /\ httpCount[op.case] = 1
           /\ IsSome(result)
           /\ ~Sent(op.case)
    /\ pc \in {"CaseSql", "CaseSqlAwait", "Http", "HttpAwait"} =>
         SqlGots(Unwrap(test).assertions) \subseteq {None}
    /\ \A m \in Messages : None \notin SqlGots(m.assertions)

\* The query of a Sql assertion is in progress after a failed request.
C9_Witness ==
    /\ Op("sql_assert", CurrentCase) \in inflight
    /\ ~Unwrap(result).ok

\* C10: while the test cases of a group run, its hook has run exactly once:
\* one reset if it requests one, each of its statements once.
ExpectedResets(h) == IF IsSome(h) /\ Unwrap(h).reset_db THEN 1 ELSE 0
ExpectedInserts(h) == IF IsSome(h) THEN Len(Unwrap(h).sql) ELSE 0

C10_GroupHookOnce ==
    ti >= 1 =>
      /\ hookResets = ExpectedResets(before_group)
      /\ hookInserts = ExpectedInserts(before_group)

\* A group hook that resets and inserts one row, and the assertion query of
\* the second case of the group in progress.
C10_Witness ==
    /\ before_group = Some([reset_db |-> TRUE, sql |-> << HookStatement >>])
    /\ Op("sql_assert", <<gi, 2>>) \in inflight
    /\ hookInserts = 1

\* C11: a test case's own hook is executed as a group hook is: when it
\* requests a reset, reset_database has been called for it (one call more
\* than the group's hook made) once the HTTP request of the case is reached,
\* and its statements have run by then.
C11_CaseHookResets ==
    (/\ pc \in {"Http", "HttpAwait"}
     /\ IsSome(Unwrap(test).before_run)
     /\ before_run_reset)
    => hookResets > ExpectedResets(before_group)

\* The statements the hook in progress declares: the group's hook until the
\* first test case of the group is entered, the case's own hook after that.
DeclaredSql ==
    IF IsSome(test)
    THEN (IF IsSome(Unwrap(test).before_run) THEN Unwrap(Unwrap(test).before_run) ELSE <<>>)
    ELSE (IF IsSome(before_group) THEN Unwrap(before_group).sql ELSE <<>>)

IsPrefix(s, t) == Len(s) <= Len(t) /\ s = SubSeq(t, 1, Len(s))

HookOps == { o \in inflight : o.kind \in {"reset", "hook_sql", "case_sql"} }

\* C12: within one hook the reset, when the hook requests it, has completed
\* before the first statement is executed (no statement has been executed
\* while reset_database is in progress, and a group hook that requests a
\* reset has had its one reset when a statement is executed); the statements
\* are executed one at a time in the declared order; and once a statement or
\* the reset has failed no further statement is executed.
C12_HookOrder ==
    /\ [](/\ IsPrefix(executed, DeclaredSql)
          /\ Cardinality(HookOps) <= 1
          /\ (\E o \in inflight : o.kind = "reset") => executed = <<>>
          /\ (executed # <<>> /\ ~IsSome(test))
               => /\ hookResets = ExpectedResets(before_group)
                  /\ \A o \in inflight : o.kind # "reset")
    /\ [][hookError => (executed' = executed /\ HookOps' \subseteq HookOps)]_vars

\* A hook that requests a reset and declares two statements or more is at its
\* second statement, the reset and the first statement having succeeded.
C12_Witness ==
    /\ pc = "GroupSqlAwait"
    /\ Unwrap(before_group).reset_db
    /\ Len(executed) >= 2
    /\ ~hookError

\* A hook's statement has failed with a later statement left to execute.
C12_WitnessFailed ==
    /\ pc = "Failed"
    /\ executed # <<>>
    /\ Len(executed) < Len(DeclaredSql)

\* C13: when a reset or a statement of a hook has failed with a database
\* error, main does not return success: the Err the Coordinator's task
\* returned is what the run ends with.
C13_HookErrorSurfaced ==
    (hookError /\ IsSome(main_result)) => Unwrap(main_result) # "Ok"

\* C14: a Status assertion passes exactly when the declared 32-bit code
\* equals the actual numeric status; a declared code that is no status value
\* (negative, below 100, above 999) fails.
C14_StatusExact ==
    Returned("assert_status")
    => /\ (Unwrap(call.ret) = Pass) <=> (call.args.s = call.args.status)
       /\ ~IsStatusCode(call.args.s) => Unwrap(call.ret) = Fail

\* The entries of a header map whose names are in `keep`.
RECURSIVE Restrict(_, _)
Restrict(map, keep) ==
    IF map = <<>> THEN <<>>
    ELSE (IF Head(map)[1] \in keep THEN <<Head(map)>> ELSE <<>>) \o Restrict(Tail(map), keep)

KeysOf(map) == { map[i][1] : i \in 1..Len(map) }

\* C15: a Headers assertion passes exactly when every declared header the
\* response also has carries there the declared value; dropping the declared
\* headers the response omits, or the response headers that were not
\* declared, never changes the verdict.
C15_HeaderSubset ==
    Returned("assert_header") =>
        LET e == call.args.expected
            a == call.args.actual
            r == Unwrap(call.ret)
        IN /\ (r = Pass) <=> (\A i \in 1..Len(e) :
                                ContainsKey(a, e[i][1]) => Get(a, e[i][1]) = e[i][2])
           /\ assert_header(Restrict(e, KeysOf(a)), a) = r
           /\ assert_header(e, Restrict(a, KeysOf(e))) = r
           /\ KeysOf(e) \cap KeysOf(a) = {} => r = Pass

\* A declared header is omitted by the response, the response has a header
\* that was not declared, and the assertion has passed.
C15_Witness ==
    /\ Returned("assert_header")
    /\ call.args.expected = << <<"etag", "abc">> >>
    /\ call.args.actual = << <<"x-trace", "abd">> >>
    /\ Unwrap(call.ret) = Pass

\* C16: when the body of the response did not parse as JSON, a Json
\* assertion is compared against the default JSON value (null): it passes
\* exactly when the declared expectation is that value.
C16_UnparsedBodyIsDefault ==
    (Returned("assert_json") /\ FromStr(call.args.body_text) = None)
    => ((Unwrap(call.ret) = Pass) <=> (call.args.expected = JsonNull))

\* C17: with a single-string expectation a Sql assertion passes exactly when
\* the result is one row whose string is the expectation, or the expectation
\* is "" and no row was returned; no row against a non-empty expectation, two
\* rows or more, and a got that was never filled in fail.
C17_SqlSingle ==
    (Returned("assert_sql") /\ call.args.expect.shape = "Single") =>
        LET expected == call.args.expect.val
            got == call.args.got
            r == Unwrap(call.ret)
        IN /\ (r = Pass) <=>
                 /\ IsSome(got)
                 /\ \/ Unwrap(got) = << expected >>
                    \/ expected = "" /\ Unwrap(got) = <<>>
           /\ ~IsSome(got) => r = Fail
           /\ (IsSome(got) /\ Len(Unwrap(got)) >= 2) => r = Fail
           /\ (IsSome(got) /\ Unwrap(got) = <<>> /\ expected # "") => r = Fail

\* The expectation "" against a query that returned no row has passed.
C17_Witness ==
    /\ Returned("assert_sql")
    /\ call.args.expect = Single("")
    /\ call.args.got = Some(<<>>)
    /\ Unwrap(call.ret) = Pass

\* C18: with a list expectation of length N a Sql assertion passes exactly
\* when the result has N rows and the string of the i-th row equals the i-th
\* expected string, for every i.
C18_SqlList ==
    (Returned("assert_sql") /\ call.args.expect.shape = "Multiple") =>
        LET expected == call.args.expect.val
            got == call.args.got
        IN (Unwrap(call.ret) = Pass) <=>
              /\ IsSome(got)
              /\ Len(Unwrap(got)) = Len(expected)
              /\ \A i \in 1..Len(expected) : Unwrap(got)[i] = expected[i]

\* Two rows in the expected order have passed.
C18_Witness ==
    /\ Returned("assert_sql")
    /\ call.args.expect = Multiple(<<"a", "b">>)
    /\ call.args.got = Some(<<"a", "b">>)
    /\ Unwrap(call.ret) = Pass

Reverse(rows) == [i \in 1..Len(rows) |-> rows[Len(rows) + 1 - i]]

PassedList ==
    /\ Returned("assert_sql")
    /\ call.args.expect.shape = "Multiple"
    /\ Unwrap(call.ret) = Pass

\* C19 as stated: for every list expectation and every row sequence the
\* assertion passes on, the assertion fails on the rows in reverse order.
C19_ReversalFails ==
    PassedList => assert_sql(call.args.expect, Some(Reverse(Unwrap(call.args.got)))) = Fail

\* C19: for every list expectation and every row sequence the assertion
\* passes on, the assertion fails on the rows in reverse order, unless the
\* reversed sequence is the same sequence of strings, and then it passes.
C19_ReversalFailsUnlessSame ==
    PassedList =>
        LET rows == Unwrap(call.args.got) IN
        assert_sql(call.args.expect, Some(Reverse(rows)))
            = (IF Reverse(rows) = rows THEN Pass ELSE Fail)

\* A list of two different strings has passed; its reversal is another sequence.
C19_Witness ==
    /\ PassedList
    /\ call.args.got = Some(<<"b", "a">>)

\* The got recorded for a query that fails.
IsErrorValue(got) == got \in { Some(GotStr(QueryErr(e))) : e \in QueryErrors }

\* C20: the got run_sql_assertions records for a query that returns no row
\* is not an error value, and the got it records for a query that returns one
\* row or more is a different value.
C20_EmptyResultDistinct ==
    (Returned("run_sql_assertions") /\ call.args.q.ok) =>
        IF call.args.q.rows = <<>>
        THEN ~IsErrorValue(Unwrap(call.ret))
        ELSE Unwrap(call.ret) # Some(GotStr(QueryOk(<<>>)))

\* C21: run_sql_assertions records a first column that is NULL and one that
\* decodes as no string, integer, float or boolean as the same string "null",
\* and renders no row as "<unsupported type>".
C21_NullAndUndecodedAlike ==
    (Returned("run_sql_assertions") /\ call.args.q.ok) =>
        LET rows == call.args.q.rows
            got == Unwrap(Unwrap(call.ret))
        IN /\ \A i \in 1..Len(rows) :
                /\ RowString(rows[i]) # "<unsupported type>"
                /\ rows[i].type \in {"null", "other"} => RowString(rows[i]) = "null"
           /\ (Len(rows) = 1 /\ rows[1].type \in {"null", "other"}) => got = "null"
           /\ (Len(rows) = 1) => got # "<unsupported type>"

\* A row whose first column no try_get decodes has been recorded as "null".
C21_Witness ==
    /\ Returned("run_sql_assertions")
    /\ call.args.q = QueryOk(<< OtherCell >>)
    /\ call.ret = Some(Some("null"))

\* C22: for an outcome that is a Response, the turn of Asserter::run that takes
\* it sends a tuple with one AssertResult per declared assertion, in the order
\* of declaration, the expected field of the i-th being the i-th assertion;
\* a test case without assertions gets the empty list.
C22_OneResultPerAssertion ==
    [][(/\ runner_ch # <<>>
        /\ runner_ch' = Tail(runner_ch)
        /\ Len(output_ch') = Len(output_ch) + 1
        /\ IsSome(Head(runner_ch).response)
        /\ ~IsSome(Head(runner_ch).error))
       => LET declared == Head(runner_ch).assertions
              results == output_ch'[Len(output_ch')].results
          IN /\ Len(results) = Len(declared)
             /\ \A i \in 1..Len(declared) : results[i].expected = declared[i]]_vars

\* The tuple of a test case with four declared assertions is in the channel,
\* its results in the order status, headers, sql, json; one of them failed.
C22_Witness ==
    \E i \in 1..Len(output_ch) :
        LET results == output_ch[i].results IN
        /\ Len(results) = 4
        /\ results[1].expected.kind = "Status"
        /\ results[2].expected.kind = "Headers"
        /\ results[3].expected.kind = "Sql"
        /\ results[4].expected.kind = "Json"
        /\ results[3].status = Fail
        /\ results[4].status = Pass

\* The tuple of a test case without assertions is in the channel.
C22_WitnessEmpty ==
    \E i \in 1..Len(output_ch) : output_ch[i].results = <<>>

\* C23: the tuple Asserter::run sends for a message carries the message's
\* test name and HTTP method unchanged, and as path the path component of the
\* message's URL: no scheme, no host, no query string.
C23_TupleCarriesNameMethodPath ==
    [][(/\ runner_ch # <<>>
        /\ runner_ch' = Tail(runner_ch)
        /\ Len(output_ch') = Len(output_ch) + 1)
       => LET msg == Head(runner_ch)
              out == output_ch'[Len(output_ch')]
          IN /\ out.name = msg.name
             /\ out.method = msg.method
             /\ out.path = msg.url.path
             /\ out.path = "/users/1"
             /\ UrlText(msg.url) = "http://localhost:8080/users/1?a=1"]_vars

\* The tuple of the test case <<1, 1>>, a GET of /users/1?a=1, is in the channel.
C23_Witness ==
    /\ output_ch # <<>>
    /\ output_ch[1].name = <<1, 1>>
    /\ output_ch[1].method = "GET"
    /\ output_ch[1].path = "/users/1"

\* The typed decode of a column fails.
DecodeFails(col) == col.raw \in {SqlNull, NotANumber, TooWide}

\* C24: normalizing a row never fails the query.  A column whose type name has
\* no arm becomes Unsupported, a column whose typed decode fails becomes Null,
\* every other column of the row still gets its typed value, and raw_sql
\* returns one normalized row per row fetched.
C24_DecodeFailuresAreLocal ==
    /\ Returned("from") =>
          LET table == DecodeTable(call.args.engine)
              row == call.args.row
              values == Unwrap(call.ret)[1]
          IN /\ Len(values) = Len(row)
             /\ \A i \in 1..Len(row) :
                   /\ row[i].typ \notin DOMAIN table => values[i] = DbUnsupported
                   /\ (row[i].typ \in DOMAIN table /\ DecodeFails(row[i])) => values[i] = DbNull
                   /\ (row[i].typ \in DOMAIN table /\ ~DecodeFails(row[i]))
                        => values[i] = DbValue(table[row[i].typ], row[i].raw)
    /\ (Returned("raw_sql") /\ call.args.fetched.ok) =>
          /\ Unwrap(call.ret).outcome = "Ok"
          /\ Len(Unwrap(call.ret).rows) = Len(call.args.fetched.rows)
          /\ \A i \in 1..Len(call.args.fetched.rows) :
                Len(Unwrap(call.ret).rows[i]) = Len(call.args.fetched.rows[i])

\* A row whose first column has a type without an arm and whose second
\* column does not decode has been normalized to <<Unsupported, Null>>.
C24_Witness ==
    /\ Returned("from")
    /\ call.args.engine = "postgres"
    /\ call.args.row = << RawColumn("INTERVAL", "1 day"), RawColumn("NUMERIC", NotANumber) >>
    /\ Unwrap(call.ret)[1] = << DbUnsupported, DbNull >>

\* C25: raw_sql on a query the database rejects returns Err to its caller,
\* on both engines, and does not panic the calling task.
C25_RejectedQueryIsErr ==
    (Returned("raw_sql") /\ ~call.args.fetched.ok) => Unwrap(call.ret).outcome = "Err"

\* The columns of the row that hold a non-NULL value of a type with an arm.
StoredTyped(engine, row) ==
    { i \in 1..Len(row) : row[i].typ \in DOMAIN DecodeTable(engine) /\ row[i].raw # SqlNull }

\* C26 as stated: a non-NULL value in a column whose type has an arm
\* normalizes to the DbValue variant of the arm, never to Null or Unsupported.
C26_TypedNeverNull ==
    Returned("from") =>
        \A i \in StoredTyped(call.args.engine, call.args.row) :
            Unwrap(call.ret)[1][i].tag = DecodeTable(call.args.engine)[call.args.row[i].typ]

\* C26: a non-NULL value in a column whose type has an arm never normalizes
\* to Unsupported, and normalizes to the DbValue variant of the arm carrying
\* the value unless its typed decode fails, in which case it is Null; true in
\* a boolean column is Bool(true) on both engines.
C26_TypedUnlessDecodeFails ==
    Returned("from") =>
        LET engine == call.args.engine
            row == call.args.row
            values == Unwrap(call.ret)[1]
        IN \A i \in StoredTyped(engine, row) :
             /\ values[i] # DbUnsupported
             /\ (values[i] = DbNull) <=> (row[i].raw \in {NotANumber, TooWide})
             /\ values[i] # DbNull => values[i] = DbValue(DecodeTable(engine)[row[i].typ], row[i].raw)
             /\ (row[i].typ \in {"BOOL", "BOOLEAN"} /\ row[i].raw = "true")
                  => values[i] = DbValue("Bool", "true")

\* true in a BOOLEAN column of MySQL has been read back as Bool(true), next to
\* a DECIMAL whose decode failed.
C26_Witness ==
    /\ Returned("from")
    /\ call.args.engine = "mysql"
    /\ call.args.row = << RawColumn("BOOLEAN", "true"), RawColumn("DECIMAL", TooWide) >>
    /\ Unwrap(call.ret)[1] = << DbValue("Bool", "true"), DbNull >>

IndexOf(log, query) ==
    IF \E i \in 1..Len(log) : log[i] = query
    THEN CHOOSE i \in 1..Len(log) : log[i] = query /\ \A j \in 1..(i - 1) : log[j] # query
    ELSE 0

\* A statement that truncates or deletes from a table.
Clears(query) == \E table \in Tables : query \in {Truncate(table), Delete(table)}

\* C28: reset_database issues the SQLite catalog query first; it issues the
\* information-schema query, as its second query, exactly when the first one
\* failed or listed no table; and when the information-schema query fails it
\* returns that query's error with no TRUNCATE and no DELETE issued.
C28_CatalogOrder ==
    (Returned("reset_database") /\ call.args.env.acquire) =>
        LET env == call.args.env
            log == Unwrap(call.ret).log
            returned == Unwrap(call.ret).result
            fallback == ~env.sqlite.ok \/ env.sqlite.tables = <<>>
        IN /\ log # <<>> /\ log[1] = SqliteCatalog
           /\ IndexOf(log, InformationSchema) = (IF fallback THEN 2 ELSE 0)
           /\ (fallback /\ ~env.info.ok) =>
                 /\ returned = ResetErr(InformationSchema)
                 /\ \A i \in 1..Len(log) : ~Clears(log[i])

\* The SQLite query listed no table, the information-schema query failed, and
\* reset_database has returned.
C28_Witness ==
    /\ Returned("reset_database")
    /\ call.args.env.acquire
    /\ call.args.env.sqlite = [ok |-> TRUE, tables |-> <<>>]
    /\ ~call.args.env.info.ok
    /\ Unwrap(call.ret) = Done(<< SqliteCatalog, InformationSchema >>, ResetErr(InformationSchema))

\* The SQLite query failed and the information-schema query listed tables
\* that have then been truncated.
C28_WitnessFallback ==
    /\ Returned("reset_database")
    /\ ~call.args.env.sqlite.ok
    /\ call.args.env.info.ok
    /\ Unwrap(call.ret).result = ResetOk
    /\ \E i \in 1..Len(Unwrap(call.ret).log) : Clears(Unwrap(call.ret).log[i])

\* The tables reset_database enumerated, when it enumerated any.
Enumerated(env) ==
    IF env.sqlite.ok /\ env.sqlite.tables # <<>> THEN env.sqlite.tables
    ELSE IF env.info.ok THEN env.info.tables ELSE <<>>

\* C29: for each enumerated table TRUNCATE is attempted first and DELETE is
\* attempted, right after it, exactly when the TRUNCATE failed; the Result is
\* the error of the first DELETE that failed, after which nothing is issued,
\* and Ok when none failed; a failed sequence reset changes neither: the
\* tables after it are reset and the Result is what the DELETEs make it.
C29_TruncateThenDelete ==
    (Returned("reset_database") /\ call.args.env.acquire
        /\ (call.args.env.info.ok \/ Enumerated(call.args.env) # <<>>)) =>
        LET env == call.args.env
            tables == Enumerated(env)
            log == Unwrap(call.ret).log
            returned == Unwrap(call.ret).result
            fails(i) == ~env.truncate[tables[i]] /\ ~env.delete[tables[i]]
            reached(i) == \A j \in 1..(i - 1) : ~fails(j)
        IN /\ \A i \in 1..Len(tables) :
                LET truncated == IndexOf(log, Truncate(tables[i]))
                    deleted == IndexOf(log, Delete(tables[i]))
                    sequence == IndexOf(log, ResetSeq(tables[i]))
                IN /\ (truncated # 0) <=> reached(i)
                   /\ (deleted # 0) <=> (reached(i) /\ ~env.truncate[tables[i]])
                   /\ deleted # 0 => deleted = truncated + 1
                   /\ (sequence # 0) <=> (reached(i) /\ ~fails(i))
                   /\ (reached(i) /\ fails(i)) =>
                         /\ returned = ResetErr(Delete(tables[i]))
                         /\ deleted = Len(log)
           /\ returned.ok <=> \A i \in 1..Len(tables) : ~fails(i)

\* The sequence reset of the first table failed, the TRUNCATE of the second
\* failed and its DELETE succeeded: both tables are reset and the Result is Ok.
C29_Witness ==
    /\ Returned("reset_database")
    /\ call.args.env.acquire
    /\ Enumerated(call.args.env) = << "t", "u" >>
    /\ ~call.args.env.seq["t"]
    /\ call.args.env.truncate["t"]
    /\ ~call.args.env.truncate["u"] /\ call.args.env.delete["u"]
    /\ Unwrap(call.ret).result = ResetOk
    /\ IndexOf(Unwrap(call.ret).log, Delete("u")) # 0

\* The TRUNCATE and the DELETE of a table both failed and the error of the
\* DELETE has been returned.
C29_WitnessDeleteFailed ==
    /\ Returned("reset_database")
    /\ \E table \in Tables : Unwrap(call.ret).result = ResetErr(Delete(table))

\* The steps of a run that come after the database is set up: the
\* application, and the pipeline in which every hook, test case and HTTP
\* request is executed.
AfterDatabase == {"from_command", "wait_for_app_ready", "run_pipeline_tasks"}

\* A step of the database set-up fails in this environment: the connection,
\* the wait for readiness, the migrations or the initial SQL.
DatabaseSetupFails(env) ==
    /\ env.db_type \in {"postgres", "mysql", "mariadb"} /\ env.container
    /\ \/ ~env.connect
       \/ env.ready_after >= MaxTries
       \/ env.migration = "fails"
       \/ env.init_sql \in {"unreadable", "rejected"}

\* C30: when connecting to the database, waiting for it to be ready, applying
\* the migrations or loading the initial SQL fails, main returns
\* StartUpError::DatabaseError and neither the application has been spawned
\* nor the pipeline (hooks, test cases, HTTP requests) started.
C30_DatabaseFailureAborts ==
    (Returned("main") /\ DatabaseSetupFails(call.args.env)) =>
        /\ ~Unwrap(call.ret).result.ok
        /\ Unwrap(call.ret).result.error = "StartUpError::DatabaseError"
        /\ \A i \in 1..Len(Unwrap(call.ret).log) : Unwrap(call.ret).log[i] \notin AfterDatabase

\* The database never answered `SELECT 1`: main has returned the timeout
\* after MaxTries tries.
C30_Witness ==
    /\ Returned("main")
    /\ call.args.env.ready_after = MaxTries
    /\ Unwrap(call.ret).result = StartErr("StartUpError::DatabaseError", "DatabaseTimeout")
    /\ Len(Unwrap(call.ret).log) = 2 + MaxTries

\* The database answered at the last try and the whole run took place.
C30_WitnessStarted ==
    /\ Returned("main")
    /\ call.args.env.ready_after = MaxTries - 1
    /\ Unwrap(call.ret).result = StartOk
    /\ \E i \in 1..Len(Unwrap(call.ret).log) : Unwrap(call.ret).log[i] = "run_pipeline_tasks"

\* C31: the readiness probes end after a bounded number of probes:
\* wait_for_db returns Ok at the first probe that succeeds and otherwise
\* DatabaseTimeout after exactly MaxTries (30) failed probes;
\* wait_for_app_ready returns Ok at the first response with a success status
\* and otherwise Timeout after timeout_secs (15) failed rounds.
C31_ProbesAreBounded ==
    /\ Returned("wait_for_db") =>
          LET failed == call.args.env.ready_after
              done == Unwrap(call.ret)
          IN /\ Len(done.log) <= MaxTries
             /\ failed < MaxTries => (done.result = StartOk /\ Len(done.log) = failed + 1)
             /\ failed >= MaxTries =>
                   /\ done.result = StartErr("DatabaseError", "DatabaseTimeout")
                   /\ Len(done.log) = MaxTries
    /\ Returned("wait_for_app_ready") =>
          LET failed == call.args.app.ready_after
              done == Unwrap(call.ret)
          IN /\ Len(done.log) <= timeout_secs
             /\ failed < timeout_secs => (done.result = StartOk /\ Len(done.log) = failed + 1)
             /\ failed >= timeout_secs =>
                   /\ done.result = StartErr("AppError", "Timeout")
                   /\ Len(done.log) = timeout_secs

\* The application answered 503 for all 15 rounds and wait_for_app_ready has
\* returned the timeout.
C31_Witness ==
    /\ Returned("wait_for_app_ready")
    /\ call.args.app.ready_after = 15 /\ call.args.app.failure = "503"
    /\ Unwrap(call.ret).result = StartErr("AppError", "Timeout")
    /\ Len(Unwrap(call.ret).log) = 15

\* The database answered the 30th `SELECT 1` and wait_for_db has returned Ok.
C31_WitnessLastTry ==
    /\ Returned("wait_for_db")
    /\ call.args.env.ready_after = 29
    /\ Unwrap(call.ret) = Done([i \in 1..30 |-> "SELECT 1"], StartOk)

\* C32: when wait_for_app_ready times out, lock.kill() is called on the
\* spawned application as the last step before main returns
\* StartUpError::AppTimeout, and run_pipeline_tasks is never called.
C32_TimeoutKillsApp ==
    (Returned("main") /\ ~call.args.env.app_ready
        /\ IndexOf(Unwrap(call.ret).log, "wait_for_app_ready") # 0) =>
        LET log == Unwrap(call.ret).log
        IN /\ Unwrap(call.ret).result = StartErr("StartUpError::AppTimeout", "Timeout")
           /\ IndexOf(log, "from_command") # 0
           /\ IndexOf(log, "kill") = IndexOf(log, "wait_for_app_ready") + 1
           /\ IndexOf(log, "kill") = Len(log)
           /\ IndexOf(log, "run_pipeline_tasks") = 0

\* The database was set up, the application was spawned and never became
\* ready: it has been killed and main has returned the timeout.
C32_Witness ==
    /\ Returned("main")
    /\ call.args.env.spawn /\ ~call.args.env.app_ready
    /\ call.args.env.init_sql = "ok"
    /\ Unwrap(call.ret).result = StartErr("StartUpError::AppTimeout", "Timeout")
    /\ IndexOf(Unwrap(call.ret).log, "kill") = Len(Unwrap(call.ret).log)

\* C33: the passed count plus the failed count is the number of
\* AssertResults in the bundles received, the list of failed assertions has
\* failed-count entries, all failed, in the order their bundles arrived, and
\* when the receive loop has ended 'All tests passed' has been printed exactly
\* if the failed count is zero (never before the loop ends).
C33_ReporterCounts ==
    /\ passed_count + failed_count = receivedResults
    /\ Len(failed_tests) = failed_count
    /\ \A i \in 1..Len(failed_tests) :
         /\ failed_tests[i].result.status = Fail
         /\ IndexOf(received, failed_tests[i].name) # 0
         /\ \A j \in (i + 1)..Len(failed_tests) :
              IndexOf(received, failed_tests[i].name) <= IndexOf(received, failed_tests[j].name)
    /\ all_passed_printed <=> (rpc = "Done" /\ failed_count = 0)

\* The receive loop has ended after two bundles, with results that passed
\* and results that failed in both counts.
C33_Witness ==
    /\ rpc = "Done"
    /\ Len(received) = 2
    /\ passed_count >= 1 /\ failed_count >= 2
    /\ failed_tests[1].name # failed_tests[Len(failed_tests)].name

\* C34: the pipeline never deadlocks: in every reachable state either the
\* three tasks have all finished, or one of them can take a step; this
\* includes the states after a fatal database error in run_tests.
C34_NoDeadlock ==
    \/ RunnerFinished /\ AsserterFinished /\ OutPutterFinished
    \/ ENABLED Coordinator
    \/ ENABLED Evaluator
    \/ ENABLED Reporter

\* run_tests has returned a database error after an outcome was sent, and the
\* Evaluator and the Reporter are still in their loops.
C34_Witness ==
    /\ pc = "Failed"
    /\ Len(sentLog) >= 1
    /\ apc = "Recv" /\ rpc = "Recv"
    /\ runner_ch = <<>> /\ output_ch = <<>>

\* C35: 'All tests passed' is printed only if every test case of the plan
\* was executed and reported and every assertion passed; in particular not
\* after a reset or a hook statement has returned a database error.
C35_AllPassedMeansAllRan ==
    all_passed_printed =>
        /\ ~hookError
        /\ failed_count = 0
        /\ \A id \in CaseIds(plan) : httpCount[id] = 1 /\ IndexOf(received, id) # 0

\* C36: a database error raised by the query of a Sql assertion does not
\* abort the run: when fetch_all returns, whatever it returns, run_tests goes
\* on (it does not fail and no hook error is recorded) with the got of that
\* assertion filled, by the text of the error if there was one; and the send
\* that follows carries the assertions as filled and leads to the next test
\* case.
C36_AssertionErrorContinues ==
    /\ [][(pc = "SqlAssertAwait" /\ pc' # pc) =>
            /\ pc' \in {"SqlAssert", "Body", "Send"}
            /\ hookError' = hookError
            /\ Unwrap(test').assertions[ai].got
                  \in { Some("SQL error: " \o e) : e \in QueryErrors }
                         \cup { Some(GotStr(q)) : q \in { r \in QueryResults : r.ok } }]_vars
    /\ [][(pc = "Send" /\ pc' \notin {pc, "Crashed"}) =>
            /\ Len(runner_ch') = Len(runner_ch) + 1
            /\ runner_ch'[Len(runner_ch')].name = CurrentCase
            /\ runner_ch'[Len(runner_ch')].assertions = Unwrap(test).assertions
            /\ pc' = "TestHead"]_vars

\* The outcome of the first test case, sent with the text of a database
\* error as the got of its Sql assertion, is in the channel while the request
\* of the second test case is in progress.
C36_Witness ==
    /\ \E m \in Messages :
         /\ m.name = <<1, 1>>
         /\ \E got \in SqlGots(m.assertions) : IsErrorValue(got)
    /\ CurrentCase = <<1, 2>>
    /\ pc = "HttpAwait"
    /\ ~hookError

\* C37: a before_each_test hook is executed before every test case of the
\* group and a before_each_group hook before every group: when the request of
\* the ti-th test case of a group is reached, a declared before_each_test
\* hook that requests a reset has had reset_database called ti times since
\* the group was entered, and a declared before_each_group hook that requests
\* one has had it called at least once.
C37_BeforeEachExecuted ==
    pc \in {"Http", "HttpAwait"} =>
        /\ (IsSome(before_each_test) /\ Unwrap(before_each_test).reset_db) => hookResets >= ti
        /\ (IsSome(before_each_group) /\ Unwrap(before_each_group).reset_db) => hookResets >= 1

\* The results in a sequence of bundles or of failed entries that report a
\* failed request with an empty message: what assert gives for a result with
\* neither response nor error.
FromNeither(results) ==
    { i \in 1..Len(results) :
        /\ results[i].actual.kind = "RequestFailed"
        /\ results[i].actual.message = "" }

\* C38: every RunnerResult sent has exactly one of response and error set,
\* and the branch of assert for a result with neither is never taken: no
\* bundle sent to the Reporter, and no failed entry it has listed, reports a
\* failed request without its error message.
C38_ResponseXorError ==
    /\ \A m \in Messages :
         \/ IsSome(m.response) /\ m.error = None
         \/ IsSome(m.error) /\ m.response = None
    /\ \A b \in Elems(output_ch) : FromNeither(b.results) = {}
    /\ \A f \in Elems(failed_tests) : FromNeither(<< f.result >>) = {}

\* A result with an error and no response is queued for the Evaluator while
\* a bundle computed from a response is queued for the Reporter.
C38_Witness ==
    /\ \E m \in Messages : IsSome(m.error) /\ m.response = None
    /\ \E b \in Elems(output_ch) : Len(b.results) > 1

\* The scheduler runs every task that can take a step, every await of
\* run_tests returns, and main goes on once the join completes.
LiveSpec == FairSpec /\ WF_vars(Coordinator) /\ WF_vars(Main)

Emptied(env, log, table) ==
    \/ IndexOf(log, Truncate(table)) # 0 /\ env.truncate[table]
    \/ IndexOf(log, Delete(table)) # 0 /\ env.delete[table]

\* C40: when reset_database returns Ok, every table the catalog query listed
\* has been emptied by a TRUNCATE or a DELETE that succeeded: none was
\* skipped, and none had both statements fail.
C40_SuccessMeansEmptied ==
    (Returned("reset_database") /\ Unwrap(call.ret).result.ok) =>
        \A i \in 1..Len(Enumerated(call.args.env)) :
            Emptied(call.args.env, Unwrap(call.ret).log, Enumerated(call.args.env)[i])

\* reset_database has returned Ok on two tables: the first could not be
\* truncated and was deleted from, the second was truncated.
C40_Witness ==
    /\ Returned("reset_database")
    /\ Unwrap(call.ret).result.ok
    /\ Enumerated(call.args.env) = << "t", "u" >>
    /\ ~call.args.env.truncate["t"] /\ call.args.env.delete["t"]
    /\ call.args.env.truncate["u"]
    /\ IndexOf(Unwrap(call.ret).log, Delete("t")) < IndexOf(Unwrap(call.ret).log, Truncate("u"))

====
